---- MODULE Spec2Model ----
(***************************************************************************)
(* A model of bountybot: the tool runner (tools/runner.py), the nuclei     *)
(* scan wrapper (scanner/nuclei_runner.py), the finding classifier         *)
(* (scanner/intelligence.py) and the pipeline entry points (cli.py,        *)
(* executor.py, pipeline.py).                                              *)
(*                                                                         *)
(* Python strings are TLA+ strings; TLC evaluates Len, SubSeq and \o on    *)
(* them, so substring tests, lower() and strip() are computed character by *)
(* character as Python computes them.                                      *)
(***************************************************************************)
EXTENDS Integers, Sequences, FiniteSets, TLC

VARIABLES
    \* ---- scanner/intelligence.py: one finding being classified
    finding,        \* the finding dict (a function from its keys)
    role,           \* role_category returned by determine_endpoint_role
    phase,          \* "new" -> "classified"
    \* ---- tools/runner.py: one call of run_all_tools
    which,          \* per tool: shutil.which(binary) finds the binary
    st,             \* per tool: where its run_tool invocation stands
    out,            \* per tool: the stdout lines its process has written
    exit,           \* returncode of each tool whose process has exited
    res,            \* what each ended run_tool call did: return or raise
    merged,         \* the dict run_all_tools builds
    ret,            \* the run_all_tools call: idle, running, returned, raised
    exc,            \* the exception that left run_all_tools
    \* ---- cli.py / executor.py / pipeline.py: one pipeline run
    entry,          \* which entry point runs
    pipe,           \* the entry point's position
    pexc,           \* the exception that left the entry point
    \* ---- scanner/nuclei_runner.py: one call of run_nuclei_scan
    profile,        \* the profile argument ("" is None)
    has_timeout,    \* the timeout argument is not None
    spc,            \* where the calling thread stands
    pending,        \* the exception raised before the finally block
    proc,           \* the nuclei process: none, running, exited, killed
    returncode,     \* proc.returncode
    child,          \* a helper process that inherited the pipes
    opipe,          \* lines written to stdout and not yet read
    epipe,          \* lines written to stderr and not yet read
    written,        \* how many lines the process has written
    othr,           \* the stdout reader thread
    ethr,           \* the stderr reader thread
    stdout_lines,   \* the bucket of _collect_stdout
    stderr_tail,    \* the deque of _relay_stderr
    outcome,        \* how the call ended
    findings,       \* NucleiScanResult.findings
    \* ---- cli.py process_findings: the insight tags of the item
    insights,       \* what infer_insights returned, one entry per pass
    \* ---- analyzer/chainsynthesizer.py: calls of synthesize_attack_paths
    scan_results,   \* the list passed in (its dicts are written to)
    paths,          \* the list the latest call returned
    calls,          \* how many calls have returned
    \* ---- executor.py / pipeline.py: the phases after the scan phase
    target_url,         \* the target of the run
    nuclei_findings,    \* the findings as the tool runner returned them
    classified_findings,\* the finding dicts, annotated in place
    attack_paths,       \* the synthesized paths
    tested_payloads,    \* what simulate_attack_attempt returned
    bounty_docs,        \* the drafts of write_bounty_report
    record,             \* the consolidated record written as JSON
    \* ---- scanner/nuclei_runner.py: calls of build_nuclei_command
    registry,       \* _PROFILES, the module's profile registry
    commands,       \* each call so far: its arguments and what it gave
    \* ---- data/model.py: the attack_success_log table
    rows,           \* the rows of the table, in rowid order
    logged,         \* the log_attack_result calls made so far
    output,         \* what the latest retrieve_successful_chains returned
    \* ---- scanner/nuclei_runner.py: the stderr relay on a long stream
    err_script,     \* the lines the process is going to write to stderr
    stderr_lines    \* list(stderr_tail), taken after the joins

clsVars == <<finding, role, phase>>

toolVars == <<which, st, out, exit, res, merged, ret, exc>>

pipeVars == <<entry, pipe, pexc>>

scanVars == <<profile, has_timeout, spc, pending, proc, returncode, child,
              opipe, epipe, written, othr, ethr, stdout_lines, stderr_tail,
              outcome, findings>>

insVars == <<insights>>

synVars == <<scan_results, paths, calls>>

runVars == <<target_url, nuclei_findings, classified_findings, attack_paths,
             tested_payloads, bounty_docs, record>>

cmdVars == <<registry, commands>>

storeVars == <<rows, logged, output>>

tailVars == <<err_script, stderr_lines>>

\* the state of the command builder, the store and the long stderr stream
auxVars == <<cmdVars, storeVars, tailVars>>

\* the state of the analysis stages and of the helpers around them
anaVars == <<insVars, synVars, runVars, auxVars>>

vars == <<finding, role, phase, which, st, out, exit, res, merged, ret, exc,
          entry, pipe, pexc, profile, has_timeout, spc, pending, proc,
          returncode, child, opipe, epipe, written, othr, ethr, stdout_lines,
          stderr_tail, outcome, findings, insights, scan_results, paths,
          calls, target_url, nuclei_findings, classified_findings,
          attack_paths, tested_payloads, bounty_docs, record, registry,
          commands, rows, logged, output, err_script, stderr_lines>>

(***************************************************************************)
(* Python string primitives                                                *)
(***************************************************************************)

UpperAlpha == "ABCDEFGHIJKLMNOPQRSTUVWXYZ"

LowerAlpha == "abcdefghijklmnopqrstuvwxyz"

\* one character of str.lower()
LowerChar(c) ==
    IF \E i \in 1..Len(UpperAlpha) : SubSeq(UpperAlpha, i, i) = c
    THEN LET i == CHOOSE j \in 1..Len(UpperAlpha) : SubSeq(UpperAlpha, j, j) = c
         IN  SubSeq(LowerAlpha, i, i)
    ELSE c

RECURSIVE Lower(_)
\* str.lower()
Lower(s) ==
    IF Len(s) = 0 THEN ""
    ELSE LowerChar(SubSeq(s, 1, 1)) \o Lower(SubSeq(s, 2, Len(s)))

\* Python's `kw in text` on strings
Contains(text, kw) ==
    \E i \in 1..(Len(text) - Len(kw) + 1) : SubSeq(text, i, i + Len(kw) - 1) = kw

RECURSIVE Join(_, _)
\* sep.join(fragments)
Join(sep, fragments) ==
    IF Len(fragments) = 0 THEN ""
    ELSE IF Len(fragments) = 1 THEN fragments[1]
    ELSE fragments[1] \o sep \o Join(sep, Tail(fragments))

Whitespace == {" ", "\t"}

RECURSIVE LStrip(_)
\* str.lstrip()
LStrip(s) ==
    IF Len(s) > 0 /\ SubSeq(s, 1, 1) \in Whitespace
    THEN LStrip(SubSeq(s, 2, Len(s)))
    ELSE s

RECURSIVE RStrip(_)
\* str.rstrip()
RStrip(s) ==
    IF Len(s) > 0 /\ SubSeq(s, Len(s), Len(s)) \in Whitespace
    THEN RStrip(SubSeq(s, 1, Len(s) - 1))
    ELSE s

\* str.strip()
Strip(s) == LStrip(RStrip(s))

\* d.get(k) or "" : a missing key, None and "" all give ""
GetStr(d, k) == IF k \in DOMAIN d THEN d[k] ELSE ""

\* d.get(k) or {} : a missing info object gives the empty dict
GetDict(d, k) == IF k \in DOMAIN d THEN d[k] ELSE <<>>

(***************************************************************************)
(* scanner/intelligence.py                                                 *)
(***************************************************************************)

ROLE_PATTERNS ==
    << [role |-> "File Upload",
        keywords |-> {"upload", "multipart", "file upload", "image upload",
                      "avatar", "attachment", "media upload"}],
       [role |-> "Login/Auth Endpoint",
        keywords |-> {"login", "sign-in", "signin", "authenticate",
                      "authentication", "oauth", "sso", "token", "password",
                      "session"}],
       [role |-> "Admin Panel",
        keywords |-> {"admin", "dashboard", "control panel", "console", "cms",
                      "backoffice"}],
       [role |-> "Debug/Logging",
        keywords |-> {"debug", "trace", "log", "logging", "status page",
                      "metrics", "prometheus"}] >>

\* A tags value is tagged with its Python type: a str, a list of str, or
\* something that is not iterable; a missing key is None.
ensure_iterable(d, k) ==
    IF k \notin DOMAIN d THEN <<>>
    ELSE IF d[k].kind = "str" THEN <<d[k].v>>
    ELSE IF d[k].kind = "list" THEN d[k].v
    ELSE <<>>

\* the truthy entries of a sequence, in order
RECURSIVE Truthy(_)
Truthy(seq) ==
    IF Len(seq) = 0 THEN <<>>
    ELSE IF Head(seq) = "" THEN Truthy(Tail(seq))
    ELSE <<Head(seq)>> \o Truthy(Tail(seq))

collect_text(f) ==
    LET info == GetDict(f, "info")
        candidates == << GetStr(f, "template-id"), GetStr(info, "name"),
                         GetStr(info, "description"), GetStr(f, "matched-at"),
                         GetStr(info, "reference") >>
        entries == Truthy(ensure_iterable(info, "tags")
                          \o ensure_iterable(f, "tags"))
        fragments == Truthy(candidates) \o entries
    IN  [text_blob |-> Lower(Join(" ", fragments)),
         tag_set |-> {Lower(entries[i]) : i \in 1..Len(entries)}]

text_contains(text, keywords, tags) ==
    (\E keyword \in keywords : Contains(text, keyword))
    \/ (tags \cap keywords # {})

NoRole == "None"

role_from_path_basic_auth_first(path) ==
    IF path = "" THEN NoRole
    ELSE IF Contains(path, "/basic-auth") THEN "Auth Endpoint"
    ELSE IF Contains(path, "login") \/ Contains(path, "auth")
         THEN "Login/Auth Endpoint"
    ELSE IF Contains(path, "admin") THEN "Admin Panel"
    ELSE IF Contains(path, "upload") \/ Contains(path, "/image")
         THEN "File Upload"
    ELSE IF Contains(path, "/status/") THEN "Status Checker/API Gate"
    ELSE NoRole

role_from_path(path) ==
    IF path = "" THEN NoRole
    ELSE IF Contains(path, "login") \/ Contains(path, "auth")
         THEN "Login/Auth Endpoint"
    ELSE IF Contains(path, "admin") THEN "Admin Panel"
    ELSE IF Contains(path, "upload") \/ Contains(path, "/image")
         THEN "File Upload"
    ELSE IF Contains(path, "/basic-auth") THEN "Auth Endpoint"
    ELSE IF Contains(path, "/status/") THEN "Status Checker/API Gate"
    ELSE NoRole

\* the first ROLE_PATTERNS entry, from position i on, that matches
RECURSIVE FirstPattern(_, _, _, _)
FirstPattern(patterns, i, text, tags) ==
    IF i > Len(patterns) THEN NoRole
    ELSE IF text_contains(text, patterns[i].keywords, tags)
         THEN patterns[i].role
    ELSE FirstPattern(patterns, i + 1, text, tags)

\* the part of determine_endpoint_role after the path fast-path
role_from_text(f) ==
    LET ct == collect_text(f)
        table_role == FirstPattern(ROLE_PATTERNS, 1, ct.text_blob, ct.tag_set)
    IN  IF table_role # NoRole THEN table_role
        ELSE IF Contains(ct.text_blob, "api") \/ Contains(ct.text_blob, "graphql")
             THEN "API Endpoint"
        ELSE IF Contains(ct.text_blob, "database") \/ Contains(ct.text_blob, "sql")
             THEN "Database Service"
        ELSE "Debug/Logging"

determine_endpoint_role_table_first(f) ==
    LET ct == collect_text(f)
        table_role == FirstPattern(ROLE_PATTERNS, 1, ct.text_blob, ct.tag_set)
        path_role == role_from_path(Lower(GetStr(f, "matched-at")))
    IN  IF table_role # NoRole THEN table_role
        ELSE IF path_role # NoRole THEN path_role
        ELSE role_from_text(f)

determine_endpoint_role(f) ==
    LET matched_at == Lower(GetStr(f, "matched-at"))
        path_role == role_from_path(matched_at)
    IN  IF path_role # NoRole THEN path_role ELSE role_from_text(f)

INSIGHT_PATTERNS ==
    << [keywords |-> {"sqli", "sql injection", "blind-sql"},
        label |-> "SQLi Suspected"],
       [keywords |-> {"xss", "cross-site scripting"}, label |-> "XSS Exposure"],
       [keywords |-> {"lfi", "rfi", "file inclusion", "directory traversal"},
        label |-> "File Disclosure Risk"],
       [keywords |-> {"rce", "command-injection", "remote code execution"},
        label |-> "RCE Potential"],
       [keywords |-> {"csrf", "cross-site request forgery"},
        label |-> "CSRF Vector"],
       [keywords |-> {"ssrf", "request forgery"}, label |-> "SSRF Potential"],
       [keywords |-> {"open-redirect", "redirect"}, label |-> "Open Redirect"],
       [keywords |-> {"token", "cookie", "jwt"},
        label |-> "Session Token Exposure"],
       [keywords |-> {"bucket", "s3", "storage"}, label |-> "Storage Exposure"],
       [keywords |-> {"debug", "stacktrace"},
        label |-> "Debug Information Leak"] >>

\* the closure add() of infer_insights: append a label not yet listed
add(labels, label) ==
    IF \E i \in 1..Len(labels) : labels[i] = label THEN labels
    ELSE Append(labels, label)

\* the loop of infer_insights over INSIGHT_PATTERNS, from position i on
RECURSIVE ScanInsightPatterns(_, _, _, _, _)
ScanInsightPatterns(patterns, i, text, tags, labels) ==
    IF i > Len(patterns) THEN labels
    ELSE ScanInsightPatterns(patterns, i + 1, text, tags,
            IF text_contains(text, patterns[i].keywords, tags)
            THEN add(labels, patterns[i].label)
            ELSE labels)

\* str.startswith
StartsWith(s, prefix) ==
    Len(s) >= Len(prefix) /\ SubSeq(s, 1, Len(prefix)) = prefix

\* the severity step of infer_insights
add_severity(labels, severity) ==
    IF severity \in {"critical", "high"} THEN add(labels, "High Priority")
    ELSE IF severity = "medium" THEN add(labels, "Needs Review")
    ELSE labels

\* the CVE step of infer_insights
add_cve(labels, normalized_id) ==
    IF StartsWith(normalized_id, "cve-") THEN add(labels, "CVE Coverage")
    ELSE labels

\* the role step of infer_insights
add_role(labels, f) ==
    LET r == GetStr(f, "__arcanum_role")
    IN  IF r # "" /\ r # "General Endpoint"
        THEN add(labels, "Sensitive Role: " \o r)
        ELSE labels

infer_insights_cve_before_severity(template_id, f) ==
    LET ct == collect_text(f)
        severity == Lower(GetStr(GetDict(f, "info"), "severity"))
        normalized_id == Lower(template_id)
        table == ScanInsightPatterns(INSIGHT_PATTERNS, 1, ct.text_blob,
                                     ct.tag_set, <<>>)
    IN  add_role(add_severity(add_cve(table, normalized_id), severity), f)

infer_insights(template_id, f) ==
    LET ct == collect_text(f)
        severity == Lower(GetStr(GetDict(f, "info"), "severity"))
        normalized_id == Lower(template_id)
        table == ScanInsightPatterns(INSIGHT_PATTERNS, 1, ct.text_blob,
                                     ct.tag_set, <<>>)
    IN  add_role(add_cve(add_severity(table, severity), normalized_id), f)

(***************************************************************************)
(* tools/runner.py                                                         *)
(***************************************************************************)

\* TOOLS.keys(), in insertion order
ToolOrder == <<"nuclei", "amass", "ffuf">>

ToolNames == {ToolOrder[i] : i \in 1..Len(ToolOrder)}

\* the most stdout lines one process writes
MaxLines == 2

\* what json.loads makes of the JSON documents a scanner prints
JsonDocs ==
    ("{\"template-id\":\"a\"}" :> ("template-id" :> "a"))
    @@ ("{\"template-id\":\"b\"}" :> ("template-id" :> "b"))

\* json.loads(line) succeeds: surrounding whitespace is accepted
IsJson(line) == Strip(line) \in DOMAIN JsonDocs

json_loads(line) == JsonDocs[Strip(line)]

\* the lines a tool's process may print (splitlines() of its stdout)
LinesOf(t) ==
    IF t = "nuclei"
    THEN {"{\"template-id\":\"a\"}", " {\"template-id\":\"b\"}", "oops", "  "}
    ELSE IF t = "amass" THEN {" a.h ", ""}
    ELSE {"/x "}

ExitCodes == {0, 1, 2}

\* `if line.strip()`: the non-blank lines, in order
RECURSIVE NonBlank(_)
NonBlank(lines) ==
    IF Len(lines) = 0 THEN <<>>
    ELSE IF Strip(Head(lines)) = "" THEN NonBlank(Tail(lines))
    ELSE <<Head(lines)>> \o NonBlank(Tail(lines))

\* TOOLS[t]['parser'] raises: only json.loads can, in the nuclei parser
ParserRaises(t, lines) ==
    /\ t = "nuclei"
    /\ \E i \in 1..Len(NonBlank(lines)) : ~IsJson(NonBlank(lines)[i])

\* TOOLS[t]['parser'](stdout) when it does not raise
Parser(t, lines) ==
    LET kept == NonBlank(lines)
    IN  IF t = "nuclei"
        THEN [i \in 1..Len(kept) |-> json_loads(kept[i])]
        ELSE IF t = "amass"
        THEN [i \in 1..Len(kept) |-> ("subdomain" :> Strip(kept[i]))]
        ELSE [i \in 1..Len(kept) |-> ("path" :> Strip(kept[i]))]

Terminal ==
    {"NotInstalled", "SpawnFailed", "TimedOut", "Failed", "ParseError",
     "Completed"}

PosOf(t) == CHOOSE i \in 1..Len(ToolOrder) : ToolOrder[i] = t

\* the for loop would start every tool without waiting for the one before
CanEnterConcurrent(t) == TRUE

\* the for loop reaches t when the blocking run_tool call of every tool
\* listed before it is over
CanEnter(t) == \A u \in ToolNames : PosOf(u) < PosOf(t) => st[u] \in Terminal

Returned(value) == [kind |-> "return", value |-> value, exc |-> "None"]

Raised(e) == [kind |-> "raise", value |-> <<>>, exc |-> e]

ToolsIdle ==
    /\ which = [t \in ToolNames |-> FALSE]
    /\ st = [t \in ToolNames |-> "NotStarted"]
    /\ out = [t \in ToolNames |-> <<>>]
    /\ exit = <<>>
    /\ res = <<>>
    /\ merged = <<>>
    /\ ret = "idle"
    /\ exc = "None"

PipeIdle ==
    /\ entry = "none"
    /\ pipe = "idle"
    /\ pexc = "None"

ClsIdle ==
    /\ finding = <<>>
    /\ role = NoRole
    /\ phase = "idle"

ScanIdle ==
    /\ profile = ""
    /\ has_timeout = FALSE
    /\ spc = "idle"
    /\ pending = "None"
    /\ proc = "none"
    /\ returncode = 0
    /\ child = "none"
    /\ opipe = <<>>
    /\ epipe = <<>>
    /\ written = [stdout |-> 0, stderr |-> 0]
    /\ othr = "idle"
    /\ ethr = "idle"
    /\ stdout_lines = <<>>
    /\ stderr_tail = <<>>
    /\ outcome = "None"
    /\ findings = <<>>

InsIdle == insights = <<>>

SynIdle ==
    /\ scan_results = <<>>
    /\ paths = <<>>
    /\ calls = 0

RunIdle ==
    /\ target_url = ""
    /\ nuclei_findings = <<>>
    /\ classified_findings = <<>>
    /\ attack_paths = <<>>
    /\ tested_payloads = <<>>
    /\ bounty_docs = <<>>
    /\ record = [file |-> "", content |-> <<>>]

\* _PROFILES: the arguments bundled under each profile name
PROFILES ==
    [fast |->
        [key |-> "fast",
         description |->
            "High-signal checks only (critical CVEs and common misconfigurations).",
         args |-> <<"-severity", "medium,high,critical",
                    "-tags", "cve,misconfig,exposure",
                    "-rate-limit", "150", "-concurrency", "15">>],
     balanced |->
        [key |-> "balanced",
         description |->
            "Broader coverage while still filtering to actionable template tags.",
         args |-> <<"-severity", "low,medium,high,critical",
                    "-tags", "cve,misconfig,exposure,fuzz",
                    "-rate-limit", "100">>],
     thorough |->
        [key |-> "thorough",
         description |->
            "Full nuclei defaults (no filtering) - can take several minutes.",
         args |-> <<>>]]

CmdIdle ==
    /\ registry = PROFILES
    /\ commands = <<>>

StoreIdle ==
    /\ rows = <<>>
    /\ logged = <<>>
    /\ output = [at |-> 0, pairs |-> <<>>]

TailIdle ==
    /\ err_script = <<>>
    /\ stderr_lines = <<>>

EntryPoints == {"cli", "executor", "pipeline"}

Init ==
    /\ which \in [ToolNames -> BOOLEAN]
    /\ st = [t \in ToolNames |-> "NotStarted"]
    /\ out = [t \in ToolNames |-> <<>>]
    /\ exit = <<>>
    /\ res = <<>>
    /\ merged = <<>>
    /\ ret = "idle"
    /\ exc = "None"
    /\ entry \in EntryPoints
    /\ pipe = "start"
    /\ pexc = "None"
    /\ ClsIdle
    /\ ScanIdle
    /\ InsIdle
    /\ SynIdle
    /\ RunIdle
    /\ CmdIdle
    /\ StoreIdle
    /\ TailIdle

\* the entry point calls run_all_tools(url): merged = {}
CallRunAllTools ==
    /\ pipe = "start"
    /\ pipe' = "scan"
    /\ ret' = "running"
    /\ UNCHANGED <<which, st, out, exit, res, merged, exc, entry, pexc, clsVars, anaVars,
                   scanVars>>

\* run_tool up to shutil.which: a missing binary returns {tool_name: []}
Which(t) ==
    /\ ret = "running"
    /\ st[t] = "NotStarted"
    /\ CanEnter(t)
    /\ IF which[t]
       THEN /\ st' = [st EXCEPT ![t] = "Launching"]
            /\ UNCHANGED <<res, merged>>
       ELSE /\ st' = [st EXCEPT ![t] = "NotInstalled"]
            /\ res' = (t :> Returned(<<>>)) @@ res
            /\ merged' = (t :> <<>>) @@ merged
    /\ UNCHANGED <<which, out, exit, ret, exc, pipeVars, clsVars, anaVars, scanVars>>

\* subprocess.run spawns the process, or raises FileNotFoundError, which
\* run_tool turns into ToolExecutionError and run_all_tools skips
Spawn(t) ==
    /\ ret = "running"
    /\ st[t] = "Launching"
    /\ \/ /\ st' = [st EXCEPT ![t] = "Running"]
          /\ UNCHANGED res
       \/ /\ st' = [st EXCEPT ![t] = "SpawnFailed"]
          /\ res' = (t :> Raised("ToolExecutionError")) @@ res
    /\ UNCHANGED <<which, out, exit, merged, ret, exc, pipeVars, clsVars, anaVars, scanVars>>

\* the process prints one more line
Write(t, line) ==
    /\ ret = "running"
    /\ st[t] = "Running"
    /\ Len(out[t]) < MaxLines
    /\ out' = [out EXCEPT ![t] = Append(@, line)]
    /\ UNCHANGED <<which, st, exit, res, merged, ret, exc, pipeVars, clsVars, anaVars, scanVars>>

\* the process exits within the timeout: run_tool checks the return code,
\* parses stdout and returns; run_all_tools merges or skips
Exit(t, code) ==
    /\ ret = "running"
    /\ st[t] = "Running"
    /\ exit' = (t :> code) @@ exit
    /\ IF code \notin {0, 1}
       THEN /\ st' = [st EXCEPT ![t] = "Failed"]
            /\ res' = (t :> Raised("ToolExecutionError")) @@ res
            /\ UNCHANGED <<merged, ret, exc>>
       ELSE IF ParserRaises(t, out[t])
       THEN /\ st' = [st EXCEPT ![t] = "ParseError"]
            /\ res' = (t :> Raised("JSONDecodeError")) @@ res
            /\ ret' = "raised"
            /\ exc' = "JSONDecodeError"
            /\ UNCHANGED merged
       ELSE /\ st' = [st EXCEPT ![t] = "Completed"]
            /\ res' = (t :> Returned(Parser(t, out[t]))) @@ res
            /\ merged' = (t :> Parser(t, out[t])) @@ merged
            /\ UNCHANGED <<ret, exc>>
    /\ UNCHANGED <<which, out, pipeVars, clsVars, anaVars, scanVars>>

\* the timeout of subprocess.run expires: the process is killed and
\* TimeoutExpired leaves run_tool and, uncaught, run_all_tools
Timeout(t) ==
    /\ ret = "running"
    /\ st[t] = "Running"
    /\ st' = [st EXCEPT ![t] = "TimedOut"]
    /\ res' = (t :> Raised("TimeoutExpired")) @@ res
    /\ ret' = "raised"
    /\ exc' = "TimeoutExpired"
    /\ UNCHANGED <<which, out, exit, merged, pipeVars, clsVars, anaVars, scanVars>>

\* the for loop is over: return merged
Return ==
    /\ ret = "running"
    /\ \A t \in ToolNames : st[t] \in Terminal
    /\ ret' = "returned"
    /\ UNCHANGED <<which, st, out, exit, res, merged, exc, pipeVars, clsVars, anaVars, scanVars>>

\* `await run_all_tools(url)`: run_all_tools is a plain function and has
\* returned a dict, which is not awaitable: TypeError
AwaitResult ==
    /\ pipe = "scan"
    /\ ret = "returned"
    /\ pipe' = "raised"
    /\ pexc' = "TypeError"
    /\ UNCHANGED <<toolVars, entry, clsVars, anaVars, scanVars>>

\* an exception that left run_all_tools leaves the entry point too
Propagate ==
    /\ pipe = "scan"
    /\ ret = "raised"
    /\ pipe' = "raised"
    /\ pexc' = exc
    /\ UNCHANGED <<toolVars, entry, clsVars, anaVars, scanVars>>

Next ==
    \/ CallRunAllTools
    \/ \E t \in ToolNames : Which(t)
    \/ \E t \in ToolNames : Spawn(t)
    \/ \E t \in ToolNames : \E line \in LinesOf(t) : Write(t, line)
    \/ \E t \in ToolNames : \E code \in ExitCodes : Exit(t, code)
    \/ \E t \in ToolNames : Timeout(t)
    \/ Return
    \/ AwaitResult
    \/ Propagate

Spec == Init /\ [][Next]_vars

(***************************************************************************)
(* scanner/nuclei_runner.py: run_nuclei_scan                               *)
(***************************************************************************)

DEFAULT_PROFILE == "fast"

\* the keys of _PROFILES
ProfileKeys == {"fast", "balanced", "thorough"}

\* the profile arguments tried: None, a registered name, an unknown name
ProfileArgs == {"", "Thorough", "nope"}

\* deque(maxlen=40)
StderrTailMax == 40

\* the most lines the nuclei process writes to each of its streams
MaxOut == 2

MaxErr == 2

OutLines == {"{\"template-id\":\"a\"}", "oops", " "}

ErrLines == {"[INF] x  ", " "}

\* deque.append with maxlen: the oldest entry falls out of a full deque
DequeAppendUnbounded(sink, text) == Append(sink, text)

DequeAppend(sink, text) ==
    IF Len(sink) >= StderrTailMax
    THEN Append(Tail(sink), text)
    ELSE Append(sink, text)

\* every write end of the pipes is closed: the process is gone and no
\* helper process holds an inherited copy
WriteEndsClosed == proc \in {"exited", "killed"} /\ child # "alive"

\* the loop over stdout_lines: the parsed valid lines, in order
RECURSIVE ParseStdout(_)
ParseStdout(lines) ==
    IF Len(lines) = 0 THEN <<>>
    ELSE IF Strip(Head(lines)) = "" THEN ParseStdout(Tail(lines))
    ELSE IF IsJson(Strip(Head(lines)))
         THEN <<json_loads(Strip(Head(lines)))>> \o ParseStdout(Tail(lines))
    ELSE ParseStdout(Tail(lines))

ScanInit ==
    /\ profile \in ProfileArgs
    /\ has_timeout \in BOOLEAN
    /\ spc = "start"
    /\ pending = "None"
    /\ proc = "none"
    /\ returncode = 0
    /\ child = "none"
    /\ opipe = <<>>
    /\ epipe = <<>>
    /\ written = [stdout |-> 0, stderr |-> 0]
    /\ othr = "idle"
    /\ ethr = "idle"
    /\ stdout_lines = <<>>
    /\ stderr_tail = <<>>
    /\ outcome = "None"
    /\ findings = <<>>
    /\ ToolsIdle
    /\ PipeIdle
    /\ ClsIdle
    /\ InsIdle
    /\ SynIdle
    /\ RunIdle
    /\ CmdIdle
    /\ StoreIdle
    /\ TailIdle

\* build_nuclei_command: an unknown profile raises ValueError
BuildCommand ==
    /\ spc = "start"
    /\ IF Lower(IF profile = "" THEN DEFAULT_PROFILE ELSE profile) \in ProfileKeys
       THEN spc' = "popen" /\ UNCHANGED outcome
       ELSE spc' = "done" /\ outcome' = "ValueError"
    /\ UNCHANGED <<profile, has_timeout, pending, proc, returncode, child, opipe,
                   epipe, written, othr, ethr, stdout_lines, stderr_tail,
                   findings, toolVars, pipeVars, clsVars, anaVars>>

\* subprocess.Popen raises FileNotFoundError: NucleiNotInstalled
PopenFails ==
    /\ spc = "popen"
    /\ spc' = "done"
    /\ outcome' = "NucleiNotInstalled"
    /\ UNCHANGED <<profile, has_timeout, pending, proc, returncode, child, opipe,
                   epipe, written, othr, ethr, stdout_lines, stderr_tail,
                   findings, toolVars, pipeVars, clsVars, anaVars>>

\* subprocess.Popen spawns nuclei; both reader threads are started
Popen ==
    /\ spc = "popen"
    /\ spc' = "wait"
    /\ proc' = "running"
    /\ othr' = "reading"
    /\ ethr' = "reading"
    /\ UNCHANGED <<profile, has_timeout, pending, returncode, child, opipe, epipe,
                   written, stdout_lines, stderr_tail, outcome, findings,
                   toolVars, pipeVars, clsVars, anaVars>>

\* the process prints a line on stdout
ProcWriteOut(line) ==
    /\ proc = "running"
    /\ written.stdout < MaxOut
    /\ opipe' = Append(opipe, line)
    /\ written' = [written EXCEPT !.stdout = @ + 1]
    /\ UNCHANGED <<profile, has_timeout, spc, pending, proc, returncode, child,
                   epipe, othr, ethr, stdout_lines, stderr_tail, outcome,
                   findings, toolVars, pipeVars, clsVars, anaVars>>

\* the process prints a line on stderr
ProcWriteErr(line) ==
    /\ proc = "running"
    /\ written.stderr < MaxErr
    /\ epipe' = Append(epipe, line)
    /\ written' = [written EXCEPT !.stderr = @ + 1]
    /\ UNCHANGED <<profile, has_timeout, spc, pending, proc, returncode, child,
                   opipe, othr, ethr, stdout_lines, stderr_tail, outcome,
                   findings, toolVars, pipeVars, clsVars, anaVars>>

\* the process starts a helper process, which inherits both pipes
ProcFork ==
    /\ proc = "running"
    /\ child = "none"
    /\ child' = "alive"
    /\ UNCHANGED <<profile, has_timeout, spc, pending, proc, returncode, opipe,
                   epipe, written, othr, ethr, stdout_lines, stderr_tail,
                   outcome, findings, toolVars, pipeVars, clsVars, anaVars>>

\* the helper process ends and closes its copies of the pipes
ChildExit ==
    /\ child = "alive"
    /\ child' = "gone"
    /\ UNCHANGED <<profile, has_timeout, spc, pending, proc, returncode, opipe,
                   epipe, written, othr, ethr, stdout_lines, stderr_tail,
                   outcome, findings, toolVars, pipeVars, clsVars, anaVars>>

\* the process exits by itself
ProcExit(code) ==
    /\ proc = "running"
    /\ proc' = "exited"
    /\ returncode' = code
    /\ UNCHANGED <<profile, has_timeout, spc, pending, child, opipe, epipe,
                   written, othr, ethr, stdout_lines, stderr_tail, outcome,
                   findings, toolVars, pipeVars, clsVars, anaVars>>

\* _collect_stdout: readline returns a line, which goes into the bucket
OutRead ==
    /\ othr = "reading"
    /\ opipe # <<>>
    /\ stdout_lines' = Append(stdout_lines, Head(opipe))
    /\ opipe' = Tail(opipe)
    /\ UNCHANGED <<profile, has_timeout, spc, pending, proc, returncode, child,
                   epipe, written, othr, ethr, stderr_tail, outcome, findings,
                   toolVars, pipeVars, clsVars, anaVars>>

\* _collect_stdout: readline returns "" at end of stream; the thread ends
OutEof ==
    /\ othr = "reading"
    /\ opipe = <<>>
    /\ WriteEndsClosed
    /\ othr' = "done"
    /\ UNCHANGED <<profile, has_timeout, spc, pending, proc, returncode, child,
                   opipe, epipe, written, ethr, stdout_lines, stderr_tail,
                   outcome, findings, toolVars, pipeVars, clsVars, anaVars>>

\* _relay_stderr: a line that is not blank after rstrip() goes into the deque
ErrRead ==
    /\ ethr = "reading"
    /\ epipe # <<>>
    /\ stderr_tail' = IF RStrip(Head(epipe)) = "" THEN stderr_tail
                      ELSE DequeAppend(stderr_tail, RStrip(Head(epipe)))
    /\ epipe' = Tail(epipe)
    /\ UNCHANGED <<profile, has_timeout, spc, pending, proc, returncode, child,
                   opipe, written, othr, ethr, stdout_lines, outcome, findings,
                   toolVars, pipeVars, clsVars, anaVars>>

\* _relay_stderr: end of stream; the thread ends
ErrEof ==
    /\ ethr = "reading"
    /\ epipe = <<>>
    /\ WriteEndsClosed
    /\ ethr' = "done"
    /\ UNCHANGED <<profile, has_timeout, spc, pending, proc, returncode, child,
                   opipe, epipe, written, othr, stdout_lines, stderr_tail,
                   outcome, findings, toolVars, pipeVars, clsVars, anaVars>>

\* proc.wait returns: the process has exited; on to the finally block
WaitReturns ==
    /\ spc = "wait"
    /\ proc = "exited"
    /\ spc' = "finally_stdout"
    /\ UNCHANGED <<profile, has_timeout, pending, proc, returncode, child, opipe,
                   epipe, written, othr, ethr, stdout_lines, stderr_tail,
                   outcome, findings, toolVars, pipeVars, clsVars, anaVars>>

\* proc.wait(timeout) raises TimeoutExpired while the process still runs
WaitTimesOut ==
    /\ spc = "wait"
    /\ has_timeout
    /\ proc = "running"
    /\ spc' = "kill"
    /\ UNCHANGED <<profile, has_timeout, pending, proc, returncode, child, opipe,
                   epipe, written, othr, ethr, stdout_lines, stderr_tail,
                   outcome, findings, toolVars, pipeVars, clsVars, anaVars>>

\* proc.kill(): the process dies unless it has exited in the meantime
Kill ==
    /\ spc = "kill"
    /\ spc' = "join_stdout"
    /\ proc' = IF proc = "running" THEN "killed" ELSE proc
    /\ UNCHANGED <<profile, has_timeout, pending, returncode, child, opipe, epipe,
                   written, othr, ethr, stdout_lines, stderr_tail, outcome,
                   findings, toolVars, pipeVars, clsVars, anaVars>>

\* stdout_thread.join(timeout=1): over when the thread ends or after 1 s
JoinStdoutBounded ==
    /\ spc = "join_stdout"
    /\ spc' = "join_stderr"
    /\ UNCHANGED <<profile, has_timeout, pending, proc, returncode, child, opipe,
                   epipe, written, othr, ethr, stdout_lines, stderr_tail,
                   outcome, findings, toolVars, pipeVars, clsVars, anaVars>>

\* stderr_thread.join(timeout=1), then raise NucleiScanTimeout: the
\* exception is pending while the finally block runs
JoinStderrBounded ==
    /\ spc = "join_stderr"
    /\ spc' = "finally_stdout"
    /\ pending' = "NucleiScanTimeout"
    /\ UNCHANGED <<profile, has_timeout, proc, returncode, child, opipe, epipe,
                   written, othr, ethr, stdout_lines, stderr_tail, outcome,
                   findings, toolVars, pipeVars, clsVars, anaVars>>

\* finally: stdout_thread.join() waits until the thread has ended
FinallyJoinStdout ==
    /\ spc = "finally_stdout"
    /\ othr = "done"
    /\ spc' = "finally_stderr"
    /\ UNCHANGED <<profile, has_timeout, pending, proc, returncode, child, opipe,
                   epipe, written, othr, ethr, stdout_lines, stderr_tail,
                   outcome, findings, toolVars, pipeVars, clsVars, anaVars>>

\* finally: stderr_thread.join() waits until the thread has ended; then a
\* pending exception leaves the call
FinallyJoinStderr ==
    /\ spc = "finally_stderr"
    /\ ethr = "done"
    /\ IF pending # "None"
       THEN spc' = "done" /\ outcome' = pending
       ELSE spc' = "after" /\ UNCHANGED outcome
    /\ UNCHANGED <<profile, has_timeout, pending, proc, returncode, child, opipe,
                   epipe, written, othr, ethr, stdout_lines, stderr_tail,
                   findings, toolVars, pipeVars, clsVars, anaVars>>

\* after the try: stderr_lines = list(stderr_tail); a return code outside
\* (0, 1) raises NucleiScanFailed with it; otherwise stdout is parsed,
\* non-JSON lines are skipped, and the result is returned with it
Finish ==
    /\ spc = "after"
    /\ spc' = "done"
    /\ stderr_lines' = stderr_tail
    /\ IF returncode \notin {0, 1}
       THEN outcome' = "NucleiScanFailed" /\ UNCHANGED findings
       ELSE outcome' = "NucleiScanResult" /\ findings' = ParseStdout(stdout_lines)
    /\ UNCHANGED <<profile, has_timeout, pending, proc, returncode, child, opipe,
                   epipe, written, othr, ethr, stdout_lines, stderr_tail,
                   err_script, toolVars, pipeVars, clsVars, insVars, synVars,
                   runVars, cmdVars, storeVars>>

\* the steps of the calling thread
MainStep ==
    \/ BuildCommand
    \/ PopenFails
    \/ Popen
    \/ WaitReturns
    \/ WaitTimesOut
    \/ Kill
    \/ JoinStdoutBounded
    \/ JoinStderrBounded
    \/ FinallyJoinStdout
    \/ FinallyJoinStderr
    \/ Finish

\* the steps of the two reader threads
ReaderStep == OutRead \/ OutEof \/ ErrRead \/ ErrEof

\* the steps of the nuclei process and its helper
ProcStep ==
    \/ \E line \in OutLines : ProcWriteOut(line)
    \/ \E line \in ErrLines : ProcWriteErr(line)
    \/ ProcFork
    \/ ChildExit
    \/ \E code \in ExitCodes : ProcExit(code)

ScanNext == MainStep \/ ReaderStep \/ ProcStep

ScanSpec == ScanInit /\ [][ScanNext]_vars

\* the interpreter keeps running the calling thread and the reader threads;
\* nothing is assumed about the nuclei process or its helper
FairScanSpec == ScanSpec /\ WF_vars(MainStep) /\ WF_vars(ReaderStep)

(***************************************************************************)
(* run_nuclei_scan on a process that writes more stderr lines than the     *)
(* deque keeps                                                             *)
(***************************************************************************)

\* the most lines the process writes to stderr in a long run
MaxErrLines == 43

\* the positions of the blank lines in what the process writes
BlankPositions == {{}, {2, 41}}

\* the k-th stderr line: blank, or a message followed by a space
ErrLine(k, blanks) == IF k \in blanks THEN "  " ELSE "e" \o ToString(k) \o " "

\* the lines a process writes to stderr if it lives long enough
ErrScripts ==
    {[k \in 1..MaxErrLines |-> ErrLine(k, blanks)] : blanks \in BlankPositions}

\* the state after Popen, with a process that writes nothing to stdout
TailInit ==
    /\ err_script \in ErrScripts
    /\ stderr_lines = <<>>
    /\ profile = ""
    /\ has_timeout \in BOOLEAN
    /\ spc = "wait"
    /\ pending = "None"
    /\ proc = "running"
    /\ returncode = 0
    /\ child = "none"
    /\ opipe = <<>>
    /\ epipe = <<>>
    /\ written = [stdout |-> 0, stderr |-> 0]
    /\ othr = "reading"
    /\ ethr = "reading"
    /\ stdout_lines = <<>>
    /\ stderr_tail = <<>>
    /\ outcome = "None"
    /\ findings = <<>>
    /\ ToolsIdle
    /\ PipeIdle
    /\ ClsIdle
    /\ InsIdle
    /\ SynIdle
    /\ RunIdle
    /\ CmdIdle
    /\ StoreIdle

\* the process prints its next line on stderr
ScriptWriteErr ==
    /\ proc = "running"
    /\ written.stderr < Len(err_script)
    /\ epipe' = Append(epipe, err_script[written.stderr + 1])
    /\ written' = [written EXCEPT !.stderr = @ + 1]
    /\ UNCHANGED <<profile, has_timeout, spc, pending, proc, returncode, child,
                   opipe, othr, ethr, stdout_lines, stderr_tail, outcome,
                   findings, toolVars, pipeVars, clsVars, anaVars>>

TailNext ==
    \/ ScriptWriteErr
    \/ \E code \in ExitCodes : ProcExit(code)
    \/ OutEof
    \/ ErrRead
    \/ ErrEof
    \/ WaitReturns
    \/ WaitTimesOut
    \/ Kill
    \/ JoinStdoutBounded
    \/ JoinStderrBounded
    \/ FinallyJoinStdout
    \/ FinallyJoinStderr
    \/ Finish

TailSpec == TailInit /\ [][TailNext]_vars

(***************************************************************************)
(* The findings the classifier is applied to                               *)
(***************************************************************************)

\* a dict with the optional key k: missing, or one of the values of S
Opt(k, S) == {<<>>} \cup {k :> v : v \in S}

MatchedAts ==
    {"", "http://h/LOGIN", "http://h/basic-auth/u", "http://h/Admin",
     "http://h/upload", "http://h/image/1", "http://h/status/200",
     "http://h/api/v1", "http://h/x"}

TemplateIds == {"CVE-2020-1"}

Names == {"", "Avatar changer", "SQL Injection", "GraphQL introspection",
          "Debug trace", "Dashboard"}

InfoTags == {[kind |-> "list", v |-> <<"admin">>],
             [kind |-> "list", v |-> <<"sqli">>],
             [kind |-> "list", v |-> <<"SSO", "", "upload">>],
             [kind |-> "str", v |-> "metrics"]}

TopTags == {[kind |-> "list", v |-> <<"Token">>],
            [kind |-> "other", v |-> ""]}

Infos == {n @@ t : n \in Opt("name", Names), t \in Opt("tags", InfoTags)}

Findings ==
    {m @@ i @@ t @@ g :
        m \in Opt("matched-at", MatchedAts), i \in Opt("info", Infos),
        t \in Opt("template-id", TemplateIds), g \in Opt("tags", TopTags)}

RoleNames ==
    {"Login/Auth Endpoint", "Admin Panel", "File Upload",
     "Status Checker/API Gate", "Debug/Logging", "API Endpoint",
     "Database Service"}

ClsInit ==
    /\ finding \in Findings
    /\ role = NoRole
    /\ phase = "new"
    /\ ToolsIdle
    /\ PipeIdle
    /\ ScanIdle
    /\ InsIdle
    /\ SynIdle
    /\ RunIdle
    /\ CmdIdle
    /\ StoreIdle
    /\ TailIdle

\* cli.py process_findings / executor.py phase 2: classify and store the role
Classify ==
    /\ phase = "new"
    /\ role' = determine_endpoint_role(finding)
    /\ finding' = ("__arcanum_role" :> determine_endpoint_role(finding)) @@ finding
    /\ phase' = "classified"
    /\ UNCHANGED <<toolVars, pipeVars, scanVars, anaVars>>

ClsNext == Classify

ClassifySpec == ClsInit /\ [][ClsNext]_vars

(***************************************************************************)
(* cli.py process_findings: role and insight tags of one item, and the     *)
(* same item processed again                                               *)
(***************************************************************************)

InsightMatchedAts == {"http://h/login?redirect=/", "http://h/x"}

InsightTemplateIds == {"CVE-2020-1", "blind-sql-probe"}

InsightNames == {"SQL Injection", "Debug token leak"}

Severities == {"High", "CRITICAL", "medium", "info"}

InsightInfoTags == {[kind |-> "list", v |-> <<"sqli", "XSS", "sqli">>],
                    [kind |-> "str", v |-> "jwt"]}

InsightTopTags == {[kind |-> "list", v |-> <<"xss", "rce">>]}

InsightInfos ==
    {n @@ v @@ t : n \in Opt("name", InsightNames),
                   v \in Opt("severity", Severities),
                   t \in Opt("tags", InsightInfoTags)}

InsightFindings ==
    {m @@ i @@ t @@ g :
        m \in Opt("matched-at", InsightMatchedAts),
        i \in Opt("info", InsightInfos),
        t \in Opt("template-id", InsightTemplateIds),
        g \in Opt("tags", InsightTopTags)}

\* how often the same item is processed
Passes == 2

InsInit ==
    /\ finding \in InsightFindings
    /\ role = NoRole
    /\ phase = "new"
    /\ insights = <<>>
    /\ ToolsIdle
    /\ PipeIdle
    /\ ScanIdle
    /\ SynIdle
    /\ RunIdle
    /\ CmdIdle
    /\ StoreIdle
    /\ TailIdle

\* item.get("template-id", "unknown")
TemplateIdOf(item) ==
    IF "template-id" \in DOMAIN item THEN item["template-id"] ELSE "unknown"

\* one iteration of the loop of process_findings: the role is inferred and
\* stored in the item, then the insight tags are inferred from the item
ProcessItem ==
    /\ phase \in {"new", "classified"}
    /\ Len(insights) < Passes
    /\ LET role_category == determine_endpoint_role(finding)
           item == ("__arcanum_role" :> role_category) @@ finding
       IN  /\ role' = role_category
           /\ finding' = item
           /\ insights' = Append(insights,
                                 infer_insights(TemplateIdOf(finding), item))
    /\ phase' = "classified"
    /\ UNCHANGED <<toolVars, pipeVars, scanVars, synVars, runVars, auxVars>>

InsNext == ProcessItem

InsightSpec == InsInit /\ [][InsNext]_vars

(***************************************************************************)
(* analyzer/chainsynthesizer.py                                            *)
(***************************************************************************)

\* d.get(k, default)
GetOr(d, k, default) == IF k \in DOMAIN d THEN d[k] ELSE default

\* `tag in item.get("tags", [])`: membership in a list, substring of a str
TagIn(tag, item) ==
    IF "tags" \notin DOMAIN item THEN FALSE
    ELSE IF item["tags"].kind = "str" THEN Contains(item["tags"].v, tag)
    ELSE \E i \in 1..Len(item["tags"].v) : item["tags"].v[i] = tag

\* item.get("info", {}).get("name", "Unnamed")
NameOf(item) == GetOr(GetOr(item, "info", <<>>), "name", "Unnamed")

\* the if/elif chain of the indexing loop: the one bucket an item is put in
BucketOf(item) ==
    LET r == GetOr(item, "__arcanum_role", "Unknown")
    IN  IF r = "Login/Auth Endpoint" THEN "auth_endpoints"
        ELSE IF r = "File Upload" THEN "uploads"
        ELSE IF r = "Admin Panel" THEN "exposed_admins"
        ELSE IF r = "Debug/Logging" THEN "debug_pages"
        ELSE IF Contains(Lower(NameOf(item)), "sql injection")
                \/ TagIn("sqli", item)
             THEN "sqli_points"
        ELSE "none"

\* the tuples (idx, endpoint, name) of enumerate(scan_results), 0-based
EntriesOneBased(items) ==
    [i \in 1..Len(items) |->
        [idx |-> i, endpoint |-> GetOr(items[i], "matched-at", ""),
         name |-> NameOf(items[i]), bucket |-> BucketOf(items[i])]]

Entries(items) ==
    [i \in 1..Len(items) |->
        [idx |-> i - 1, endpoint |-> GetOr(items[i], "matched-at", ""),
         name |-> NameOf(items[i]), bucket |-> BucketOf(items[i])]]

\* buckets that overlap: an auth endpoint is an SQLi point as well
BucketOverlapping(entries, b) ==
    SelectSeq(entries, LAMBDA e : \/ e.bucket = b
                                  \/ /\ b = "sqli_points"
                                     /\ e.bucket = "auth_endpoints")

\* one bucket after the indexing loop, in input order
Bucket(entries, b) == SelectSeq(entries, LAMBDA e : e.bucket = b)

\* scan_results[idx]['__endpoint_idx'] = idx, for every item
AnnotateDropsRole(items) ==
    [i \in 1..Len(items) |->
        [k \in (DOMAIN items[i] \cup {"__endpoint_idx"}) \ {"__arcanum_role"} |->
            IF k = "__endpoint_idx" THEN i - 1 ELSE items[i][k]]]

Annotate(items) ==
    [i \in 1..Len(items) |-> ("__endpoint_idx" :> (i - 1)) @@ items[i]]

\* paths.append({...}) with the id path_<len(paths)+1>
EmitPerRule(acc, name, description, steps, risk_score) ==
    Append(acc, [id |-> "path_" \o ToString(
                     Len(SelectSeq(acc, LAMBDA q : q.name = name)) + 1),
                 name |-> name, description |-> description, steps |-> steps,
                 risk_score |-> risk_score])

Emit(acc, name, description, steps, risk_score) ==
    Append(acc, [id |-> "path_" \o ToString(Len(acc) + 1), name |-> name,
                 description |-> description, steps |-> steps,
                 risk_score |-> risk_score])

\* the indices of a bucket's tuples
IdxOf(bucket) == [i \in 1..Len(bucket) |-> bucket[i].idx]

\* rule 1: one path per (upload, auth) pair, uploads in the outer loop
RECURSIVE RuleA(_, _, _, _, _)
RuleASwapped(uploads, auths, u, a, acc) ==
    IF u > Len(uploads) THEN acc
    ELSE IF a > Len(auths) THEN RuleA(uploads, auths, u + 1, 1, acc)
    ELSE RuleA(uploads, auths, u, a + 1,
            Emit(acc, "Web Shell via Weak Auth",
                 "A public file upload path at '" \o uploads[u].endpoint
                 \o "' exists alongside weak authentication at '"
                 \o auths[a].endpoint \o "'. An attacker leveraging the upload may establish persistent access and manipulate authenticated sessions.",
                 <<auths[a].idx, uploads[u].idx>>, 90))

RuleA(uploads, auths, u, a, acc) ==
    IF u > Len(uploads) THEN acc
    ELSE IF a > Len(auths) THEN RuleA(uploads, auths, u + 1, 1, acc)
    ELSE RuleA(uploads, auths, u, a + 1,
            Emit(acc, "Web Shell via Weak Auth",
                 "A public file upload path at '" \o uploads[u].endpoint
                 \o "' exists alongside weak authentication at '"
                 \o auths[a].endpoint \o "'. An attacker leveraging the upload may establish persistent access and manipulate authenticated sessions.",
                 <<uploads[u].idx, auths[a].idx>>, 90))

\* rule 2: one path per debug page: its index, then every admin panel's
RECURSIVE RuleB(_, _, _, _)
RuleBNeedsAdmin(debug_pages, admins, i, acc) ==
    IF i > Len(debug_pages) THEN acc
    ELSE RuleB(debug_pages, admins, i + 1,
            IF Len(admins) = 0 THEN acc
            ELSE Emit(acc, "Internal Recon Lead via Debug Info",
                      "The debug page located at '" \o debug_pages[i].endpoint
                      \o "' reveals internal configurations and exposed admin panels.",
                      <<debug_pages[i].idx>> \o IdxOf(admins), 60))

RuleB(debug_pages, admins, i, acc) ==
    IF i > Len(debug_pages) THEN acc
    ELSE RuleB(debug_pages, admins, i + 1,
            Emit(acc, "Internal Recon Lead via Debug Info",
                 "The debug page located at '" \o debug_pages[i].endpoint
                 \o "' reveals internal configurations and exposed admin panels.",
                 <<debug_pages[i].idx>> \o IdxOf(admins), 60))

\* rule 3: one path per SQLi point: its index, then every auth endpoint's
RECURSIVE RuleC(_, _, _, _)
RuleC(sqli_points, auths, i, acc) ==
    IF i > Len(sqli_points) THEN acc
    ELSE RuleC(sqli_points, auths, i + 1,
            Emit(acc, "Database Breach to Session Stealing",
                 "SQL Injection at '" \o sqli_points[i].endpoint
                 \o "' combined with access to login endpoints allows credential leaks leading to impersonation attacks.",
                 <<sqli_points[i].idx>> \o IdxOf(auths), 95))

\* the list synthesize_attack_paths returns
synthesize_attack_paths(items) ==
    LET entries == Entries(items)
        auth_endpoints == Bucket(entries, "auth_endpoints")
        uploads == Bucket(entries, "uploads")
        sqli_points == Bucket(entries, "sqli_points")
        exposed_admins == Bucket(entries, "exposed_admins")
        debug_pages == Bucket(entries, "debug_pages")
        a == RuleA(uploads, auth_endpoints, 1, 1, <<>>)
        b == RuleB(debug_pages, exposed_admins, 1, a)
    IN  RuleC(sqli_points, auth_endpoints, 1, b)

\* the most findings one call is given
MaxFindings == 3

\* how often synthesize_attack_paths is called on the same list
MaxCalls == 2

\* a finding with a stored role and the other keys of `rest`
WithRole(r, rest) == ("__arcanum_role" :> r) @@ rest

SqliName == ("matched-at" :> "http://h/q")
            @@ ("info" :> ("name" :> "Blind SQL Injection"))

SqliTag == "tags" :> [kind |-> "list", v |-> <<"xss", "sqli">>]

\* classified findings: every bucket role with and without what makes an
\* SQLi point (the name, or a top-level tag), and findings without a role
SynFindings ==
    { <<>>,
      SqliTag,
      WithRole("Login/Auth Endpoint", "matched-at" :> "http://h/login"),
      WithRole("Login/Auth Endpoint", SqliTag),
      WithRole("File Upload", "matched-at" :> "http://h/upload"),
      WithRole("Admin Panel", <<>>),
      WithRole("Debug/Logging", "info" :> <<>>),
      WithRole("Debug/Logging", SqliName),
      WithRole("Database Service", SqliName),
      WithRole("Database Service", "info" :> ("name" :> "Postgres")),
      WithRole("API Endpoint", "tags" :> [kind |-> "str", v |-> "xss,sqli"]) }

SynInputs == UNION {[1..n -> SynFindings] : n \in 0..MaxFindings}

SynInit ==
    /\ scan_results \in SynInputs
    /\ paths = <<>>
    /\ calls = 0
    /\ ToolsIdle
    /\ PipeIdle
    /\ ClsIdle
    /\ ScanIdle
    /\ InsIdle
    /\ RunIdle
    /\ CmdIdle
    /\ StoreIdle
    /\ TailIdle

\* one call of synthesize_attack_paths(scan_results): the items are
\* annotated in place and the paths are returned
Synthesize ==
    /\ calls < MaxCalls
    /\ scan_results' = Annotate(scan_results)
    /\ paths' = synthesize_attack_paths(scan_results)
    /\ calls' = calls + 1
    /\ UNCHANGED <<toolVars, pipeVars, clsVars, scanVars, insVars, runVars, auxVars>>

SynNext == Synthesize

SynthSpec == SynInit /\ [][SynNext]_vars

(***************************************************************************)
(* reporting/bounty_writer.py                                              *)
(***************************************************************************)

\* DEFAULT_PROMPT up to {summary}
DEFAULT_PROMPT_HEAD == "\nGiven the following technical vulnerability summary:\n\n\""

\* DEFAULT_PROMPT after {summary}
DEFAULT_PROMPT_TAIL == "\"\n\nWrite a professional and concise report suitable for submission to a bug bounty program. Include the following sections:\n\n### Description\nExplain clearly how the vulnerability occurs without disclosing sensitive information.\n\n### Proof of Concept\nDemonstrate the flaw with a minimal example (curl, etc).\n\n### Impact\nDescribe what an attacker could do.\n\n### Recommendation\nProvide a fix suggestion.\n"

\* prompt[:n]
Prefix(text, n) == SubSeq(text, 1, IF Len(text) < n THEN Len(text) ELSE n)

simulate_llm_response(prompt) ==
    "\n**Report Title**: Vulnerability Detected\n\n**Summary**: "
    \o Prefix(prompt, 100)
    \o "...\n...Full generated content would appear here via LLM inference.\n"

write_bounty_report(title, summary, severity) ==
    LET prompt == DEFAULT_PROMPT_HEAD \o summary \o DEFAULT_PROMPT_TAIL
    IN  [title |-> title, severity |-> severity, prompt_used |-> prompt,
         generated_content |-> simulate_llm_response(prompt)]

(***************************************************************************)
(* executor.py, pipeline.py, cli.py: the phases after the scan phase       *)
(***************************************************************************)

\* the most payload candidates generated for one chain
MaxPayloads == 1

\* exploits/payload_builder.py: the payload candidates of one chain
generate_for_vulnerability_chain(chain, found, n) ==
    [k \in 1..n |-> "payload_" \o ToString(k) \o "_for_" \o chain.id]

RECURSIVE PayloadQueue(_, _, _)
\* the queue of (payload, chain) pairs built from the chains, in order
PayloadQueue(chains, found, n) ==
    IF Len(chains) = 0 THEN <<>>
    ELSE LET cands == generate_for_vulnerability_chain(Head(chains), found, n)
         IN  [k \in 1..Len(cands) |-> <<cands[k], Head(chains)>>]
             \o PayloadQueue(Tail(chains), found, n)

\* exploits/payload_builder.py: one log entry per queued payload
simulate_attack_attempt(queue, target) ==
    [k \in 1..Len(queue) |->
        [payload |-> queue[k][1], chain |-> queue[k][2],
         log_entry |-> "simulated " \o queue[k][1] \o " against " \o target]]

Targets == {"http://h"}

\* findings as the tool runner parses them from nuclei's output
RawFindings ==
    { <<>>,
      ("matched-at" :> "http://h/upload") @@ ("info" :> ("name" :> "Avatar changer")),
      ("matched-at" :> "http://h/LOGIN") @@ SqliTag,
      "matched-at" :> "http://h/Admin",
      "info" :> (("name" :> "Debug trace") @@ ("severity" :> "high")),
      ("template-id" :> "CVE-2020-1") @@ ("info" :> ("name" :> "SQL Injection")) }

NoRecord == [file |-> "", content |-> <<>>]

RECURSIVE Replace(_, _, _)
\* str.replace(old, new), old not empty
Replace(text, old, new) ==
    IF Len(text) < Len(old) THEN text
    ELSE IF SubSeq(text, 1, Len(old)) = old
         THEN new \o Replace(SubSeq(text, Len(old) + 1, Len(text)), old, new)
    ELSE SubSeq(text, 1, 1) \o Replace(SubSeq(text, 2, Len(text)), old, new)

\* the file name of pipeline.py's report
ReportPath(target) ==
    "report_" \o Replace(Replace(target, "://", "_"), "/", "") \o ".json"

\* the entry point holds the findings the scan phase delivered:
\* executor.py after line 27, pipeline.py after line 22, and cli.py at the
\* call process_findings(url, nuclei_results)
RunInit ==
    /\ entry \in EntryPoints
    /\ pipe = "classify"
    /\ pexc = "None"
    /\ target_url \in Targets
    /\ nuclei_findings \in UNION {[1..n -> RawFindings] : n \in 0..MaxFindings}
    /\ classified_findings = <<>>
    /\ attack_paths = <<>>
    /\ tested_payloads = <<>>
    /\ bounty_docs = <<>>
    /\ record = NoRecord
    /\ ToolsIdle
    /\ ClsIdle
    /\ ScanIdle
    /\ InsIdle
    /\ SynIdle
    /\ CmdIdle
    /\ StoreIdle
    /\ TailIdle

\* role classification: every finding gets its role stored, in order; the
\* insight tags cli.py infers are echoed, not stored; cli.py returns at once
\* when there is no finding
ClassifyFindings ==
    /\ pipe = "classify"
    /\ classified_findings' =
          [i \in 1..Len(nuclei_findings) |->
              WithRole(determine_endpoint_role(nuclei_findings[i]),
                       nuclei_findings[i])]
    /\ pipe' = IF entry = "cli" /\ Len(nuclei_findings) = 0
               THEN "done" ELSE "synthesize"
    /\ UNCHANGED <<entry, pexc, target_url, nuclei_findings, attack_paths,
                   tested_payloads, bounty_docs, record, toolVars, clsVars,
                   scanVars, insVars, synVars, auxVars>>

\* path["target_url"] = target_url, as executor.py does for every path
AttachTarget(chains, target) ==
    [k \in 1..Len(chains) |-> ("target_url" :> target) @@ chains[k]]

\* path synthesis; executor.py then attaches the target to every path
SynthesizePaths ==
    /\ pipe = "synthesize"
    /\ classified_findings' = Annotate(classified_findings)
    /\ attack_paths' =
          IF entry = "executor"
          THEN AttachTarget(synthesize_attack_paths(classified_findings),
                            target_url)
          ELSE synthesize_attack_paths(classified_findings)
    /\ pipe' = IF entry = "cli" THEN "report" ELSE "simulate"
    /\ UNCHANGED <<entry, pexc, target_url, nuclei_findings, tested_payloads,
                   bounty_docs, record, toolVars, clsVars, scanVars, insVars,
                   synVars, auxVars>>

\* payload generation and simulation (executor.py, pipeline.py)
SimulatePayloads ==
    /\ pipe = "simulate"
    /\ \E n \in 0..MaxPayloads :
          tested_payloads' =
              simulate_attack_attempt(
                  PayloadQueue(attack_paths, classified_findings, n),
                  target_url)
    /\ pipe' = IF entry = "executor" THEN "report" ELSE "save"
    /\ UNCHANGED <<entry, pexc, target_url, nuclei_findings,
                   classified_findings, attack_paths, bounty_docs, record,
                   toolVars, clsVars, scanVars, insVars, synVars, auxVars>>

\* bounty drafts: executor.py writes one per tested payload, cli.py
\* (generate_bounty_files) one per chain
WriteReports ==
    /\ pipe = "report"
    /\ bounty_docs' =
          IF entry = "executor"
          THEN [k \in 1..Len(tested_payloads) |->
                   write_bounty_report(
                       GetOr(tested_payloads[k].chain, "name",
                             "Unnamed Attack Chain"),
                       GetOr(tested_payloads[k], "log_entry",
                             "Simulation details unavailable."),
                       "High")]
          ELSE [k \in 1..Len(attack_paths) |->
                   write_bounty_report(
                       GetOr(attack_paths[k], "name", "Unnamed Attack Chain"),
                       GetOr(attack_paths[k], "description",
                             "No description provided."),
                       "high")]
    /\ pipe' = "save"
    /\ UNCHANGED <<entry, pexc, target_url, nuclei_findings,
                   classified_findings, attack_paths, tested_payloads, record,
                   toolVars, clsVars, scanVars, insVars, synVars, auxVars>>

\* the record each entry point writes as JSON; cli.py writes its file only
\* when there is a chain
SaveRecord ==
    /\ pipe = "save"
    /\ record' =
          IF entry = "executor"
          THEN [file |-> "assessment_output.json",
                content |-> [target |-> target_url,
                             findings |-> classified_findings,
                             attack_paths |-> attack_paths,
                             tested_payloads |-> tested_payloads,
                             bounty_reports |-> bounty_docs]]
          ELSE IF entry = "pipeline"
          THEN [file |-> ReportPath(target_url),
                content |-> [target |-> target_url,
                             findings |-> classified_findings,
                             paths |-> attack_paths,
                             payloads |->
                                 [k \in 1..Len(tested_payloads) |->
                                     <<tested_payloads[k].payload,
                                       tested_payloads[k].chain>>],
                             simulation_results |-> tested_payloads]]
          ELSE IF Len(attack_paths) > 0
          THEN [file |-> "bounty_reports.json", content |-> bounty_docs]
          ELSE record
    /\ pipe' = "done"
    /\ UNCHANGED <<entry, pexc, target_url, nuclei_findings,
                   classified_findings, attack_paths, tested_payloads,
                   bounty_docs, toolVars, clsVars, scanVars, insVars, synVars, auxVars>>

\* the file an entry point writes its record to
RecordFile ==
    IF entry = "executor" THEN "assessment_output.json"
    ELSE IF entry = "pipeline" THEN ReportPath(target_url)
    ELSE "bounty_reports.json"

\* what a phase raises when it fails: a finding that is no JSON object or
\* has a null info, a collaborator that raises, an entry without its
\* chain, a file that cannot be written
PhaseError ==
    [classify |-> "AttributeError", synthesize |-> "AttributeError",
     simulate |-> "Exception", report |-> "KeyError", save |-> "OSError"]

\* the phase that follows in the entry point's code
NextPhase ==
    IF pipe = "classify" THEN "synthesize"
    ELSE IF pipe = "synthesize"
         THEN IF entry = "cli" THEN "report" ELSE "simulate"
    ELSE IF pipe = "simulate"
         THEN IF entry = "executor" THEN "report" ELSE "save"
    ELSE IF pipe = "report" THEN "save"
    ELSE "done"

\* a phase raises and a handler swallows the exception: the run goes on
PhaseFailsAndGoesOn ==
    /\ pipe \in DOMAIN PhaseError
    /\ pexc' = PhaseError[pipe]
    /\ pipe' = NextPhase
    /\ UNCHANGED <<entry, target_url, nuclei_findings, classified_findings,
                   attack_paths, tested_payloads, bounty_docs, record,
                   toolVars, clsVars, scanVars, insVars, synVars, auxVars>>

\* a phase raises: no entry point catches anything, so the exception leaves
\* the run; a write that fails after the file was opened leaves a file
\* without a record
PhaseFails ==
    /\ pipe \in DOMAIN PhaseError
    /\ pexc' = PhaseError[pipe]
    /\ pipe' = "raised"
    /\ record' \in
          IF pipe = "save" /\ (entry # "cli" \/ Len(attack_paths) > 0)
          THEN {record, [file |-> RecordFile, content |-> <<>>]}
          ELSE {record}
    /\ UNCHANGED <<entry, target_url, nuclei_findings, classified_findings,
                   attack_paths, tested_payloads, bounty_docs, toolVars,
                   clsVars, scanVars, insVars, synVars, auxVars>>

RunNext ==
    \/ ClassifyFindings
    \/ SynthesizePaths
    \/ SimulatePayloads
    \/ WriteReports
    \/ SaveRecord
    \/ PhaseFails

AssessSpec == RunInit /\ [][RunNext]_vars

(***************************************************************************)
(* scanner/nuclei_runner.py: build_nuclei_command, called on its own       *)
(***************************************************************************)

\* the most calls of build_nuclei_command in one run
MaxBuilds == 2

\* the url arguments tried
Urls == {"http://h", "https://t/x"}

\* the profile arguments tried; "" is None or the empty string, which
\* `profile or DEFAULT_PROFILE` treats alike
ProfileChoices == {"", "FAST", "Balanced", "thorough", "nope", "fast "}

\* the extra_args arguments tried; <<>> is None or an empty sequence, which
\* `if extra_args:` treats alike
ExtraArgs == {<<>>, <<"-H", "x">>}

\* profile_key without the .lower()
profile_key_case_sensitive(prof) == IF prof # "" THEN prof ELSE DEFAULT_PROFILE

\* profile_key = (profile or DEFAULT_PROFILE).lower()
profile_key(prof) == Lower(IF prof # "" THEN prof ELSE DEFAULT_PROFILE)

\* build_nuclei_command with cmd aliased to the profile's own list
build_nuclei_command_extends_profile_args(u, prof, extra) ==
    IF profile_key(prof) \notin DOMAIN registry
    THEN [raised |-> "ValueError", command |-> <<>>, registry |-> registry]
    ELSE LET args == registry[profile_key(prof)].args \o extra
         IN  [raised |-> "None",
              command |-> <<"nuclei", "-u", u, "-silent", "-jsonl",
                            "-no-meta", "-stats">> \o args,
              registry |-> [registry EXCEPT ![profile_key(prof)].args = args]]

\* build_nuclei_command(url, profile=..., extra_args=...): what it raises,
\* the list it returns, and _PROFILES after the call
build_nuclei_command(u, prof, extra) ==
    IF profile_key(prof) \notin DOMAIN registry
    THEN [raised |-> "ValueError", command |-> <<>>, registry |-> registry]
    ELSE LET scan_profile == registry[profile_key(prof)]
             cmd == <<"nuclei", "-u", u, "-silent", "-jsonl", "-no-meta",
                      "-stats">>
             extended == cmd \o scan_profile.args
         IN  [raised |-> "None",
              command |-> IF Len(extra) > 0 THEN extended \o extra
                          ELSE extended,
              registry |-> registry]

CmdInit ==
    /\ registry = PROFILES
    /\ commands = <<>>
    /\ ToolsIdle
    /\ PipeIdle
    /\ ClsIdle
    /\ ScanIdle
    /\ InsIdle
    /\ SynIdle
    /\ RunIdle
    /\ StoreIdle
    /\ TailIdle

\* one call of build_nuclei_command
CallBuildNucleiCommand ==
    /\ Len(commands) < MaxBuilds
    /\ \E u \in Urls, prof \in ProfileChoices, extra \in ExtraArgs :
         LET r == build_nuclei_command(u, prof, extra)
         IN  /\ commands' = Append(commands,
                                   [url |-> u, profile |-> prof,
                                    extra_args |-> extra, raised |-> r.raised,
                                    command |-> r.command])
             /\ registry' = r.registry
    /\ UNCHANGED <<toolVars, pipeVars, clsVars, scanVars, insVars, synVars,
                   runVars, storeVars, tailVars>>

CmdNext == CallBuildNucleiCommand

CommandSpec == CmdInit /\ [][CmdNext]_vars

(***************************************************************************)
(* data/model.py: the attack_success_log table                             *)
(***************************************************************************)

\* the most log_attack_result calls in one run
MaxLogged == 2

\* one character of a JSON string literal
EscapeChar(c) ==
    IF c = "\"" THEN "\\\""
    ELSE IF c = "\\" THEN "\\\\"
    ELSE c

RECURSIVE Escape(_)
\* the body of the JSON string literal for s
Escape(s) ==
    IF Len(s) = 0 THEN ""
    ELSE EscapeChar(SubSeq(s, 1, 1)) \o Escape(SubSeq(s, 2, Len(s)))

\* json.dumps that writes the strings as they are
json_dumps_unescaped(tags) ==
    "[" \o Join(", ", [i \in 1..Len(tags) |-> "\"" \o tags[i] \o "\""]) \o "]"

\* json.dumps(tags) for a list of strings
json_dumps(tags) ==
    "[" \o Join(", ", [i \in 1..Len(tags) |-> "\"" \o Escape(tags[i]) \o "\""])
        \o "]"

\* what a failed parse gives (json.JSONDecodeError)
JSONDecodeError == [ok |-> FALSE, v |-> <<>>, next |-> 0]

RECURSIVE ParseString(_, _, _)
\* the JSON string literal whose body starts at position i of text
ParseString(text, i, acc) ==
    IF i > Len(text) THEN [ok |-> FALSE, v |-> "", next |-> i]
    ELSE LET c == SubSeq(text, i, i)
         IN  IF c = "\"" THEN [ok |-> TRUE, v |-> acc, next |-> i + 1]
             ELSE IF c = "\\"
             THEN IF i + 1 > Len(text)
                  THEN [ok |-> FALSE, v |-> "", next |-> i]
                  ELSE ParseString(text, i + 2, acc \o SubSeq(text, i + 1, i + 1))
             ELSE ParseString(text, i + 1, acc \o c)

RECURSIVE ParseItems(_, _, _)
\* the elements of a JSON array of strings from position i of text on
ParseItems(text, i, acc) ==
    IF i > Len(text) \/ SubSeq(text, i, i) # "\"" THEN JSONDecodeError
    ELSE LET str == ParseString(text, i + 1, "")
         IN  IF ~str.ok THEN JSONDecodeError
             ELSE IF SubSeq(text, str.next, Len(text)) = "]"
             THEN [ok |-> TRUE, v |-> Append(acc, str.v), next |-> Len(text) + 1]
             ELSE IF str.next + 1 <= Len(text)
                     /\ SubSeq(text, str.next, str.next + 1) = ", "
             THEN ParseItems(text, str.next + 2, Append(acc, str.v))
             ELSE IF str.next <= Len(text)
                     /\ SubSeq(text, str.next, str.next) = ","
             THEN ParseItems(text, str.next + 1, Append(acc, str.v))
             ELSE JSONDecodeError

\* json.loads(tags_json) on the text of an array of strings
json_loads_tags(tags_json) ==
    IF tags_json = "[]" THEN [ok |-> TRUE, v |-> <<>>, next |-> 3]
    ELSE IF Len(tags_json) >= 2 /\ SubSeq(tags_json, 1, 1) = "["
    THEN ParseItems(tags_json, 2, <<>>)
    ELSE JSONDecodeError

\* the chain_description arguments tried
Descriptions == {"chain A", "chain B"}

\* the success arguments tried: the label retrieval looks for and near misses
ResultLabels == {"success", "failure", "Success", "success "}

\* the tags arguments tried
TagLists == {<<>>, <<"sqli", "auth">>, <<"a\"b, c\\">>}

\* datetime.now().isoformat() at the n-th insert
Now(n) == "t" \o ToString(n)

\* INSERT INTO attack_success_log (timestamp, chain_description, result,
\* tags): a new row whose id is the next rowid
Insert(table, chain_description, success, tags) ==
    Append(table, [id |-> Len(table) + 1,
                   timestamp |-> Now(Len(table) + 1),
                   chain_description |-> chain_description,
                   result |-> success,
                   tags |-> json_dumps(tags)])

RECURSIVE DecodeRows(_)
\* the loop over the fetched rows: a row whose tags do not parse is skipped
DecodeRows(results) ==
    IF Len(results) = 0 THEN <<>>
    ELSE LET parsed == json_loads_tags(Head(results).tags)
         IN  IF parsed.ok
             THEN <<(<<Head(results).chain_description, parsed.v>>)>>
                  \o DecodeRows(Tail(results))
             ELSE DecodeRows(Tail(results))

\* retrieve_successful_chains(): SELECT ... WHERE result = 'success'
retrieve_successful_chains(table) ==
    DecodeRows(SelectSeq(table, LAMBDA r : r.result = "success"))

StoreInit ==
    /\ rows = <<>>
    /\ logged = <<>>
    /\ output = [at |-> 0, pairs |-> <<>>]
    /\ ToolsIdle
    /\ PipeIdle
    /\ ClsIdle
    /\ ScanIdle
    /\ InsIdle
    /\ SynIdle
    /\ RunIdle
    /\ CmdIdle
    /\ TailIdle

\* log_attack_result(chain_description, success, tags)
LogAttackResult ==
    /\ Len(rows) < MaxLogged
    /\ \E chain_description \in Descriptions, success \in ResultLabels,
          tags \in TagLists :
         /\ rows' = Insert(rows, chain_description, success, tags)
         /\ logged' = Append(logged,
                             [chain_description |-> chain_description,
                              success |-> success, tags |-> tags])
    /\ UNCHANGED <<output, toolVars, pipeVars, clsVars, scanVars, insVars,
                   synVars, runVars, cmdVars, tailVars>>

\* retrieve_successful_chains() on the table as it is now
RetrieveSuccessfulChains ==
    /\ output' = [at |-> Len(rows), pairs |-> retrieve_successful_chains(rows)]
    /\ UNCHANGED <<rows, logged, toolVars, pipeVars, clsVars, scanVars,
                   insVars, synVars, runVars, cmdVars, tailVars>>

StoreNext ==
    \/ LogAttackResult
    \/ RetrieveSuccessfulChains

StoreSpec == StoreInit /\ [][StoreNext]_vars

(***************************************************************************)
(* Claims about run_all_tools and the pipeline (checked under Spec)         *)
(***************************************************************************)

\* C1: for every combination of per-tool outcomes the map run_all_tools
\* returns has exactly the configured tool names as its keys, and every
\* tool that did not complete maps to an empty list.
C1_KeysAreAllTools ==
    ret = "returned" =>
        /\ DOMAIN merged = ToolNames
        /\ \A t \in ToolNames : st[t] # "Completed" => merged[t] = <<>>

\* C2: run_all_tools never raises because of a failure inside one tool
\* invocation (not installed, timed out, exit code outside {0,1}, a
\* non-JSON line).
C2_NeverRaises == ret # "raised"

\* C3: a per-tool timeout never cancels sibling invocations: when one tool
\* has timed out and the call is over, every other tool was invoked, ran to
\* its own terminal outcome and has its findings in the returned map.
C3_TimeoutSparesSiblings ==
    \A t \in ToolNames :
        st[t] = "TimedOut" /\ ret \in {"returned", "raised"} =>
            /\ ret = "returned"
            /\ \A u \in ToolNames \ {t} :
                  st[u] \in Terminal /\ u \in DOMAIN merged

OutcomeClass(t) == IF st[t] = "SpawnFailed" THEN "NotInstalled" ELSE st[t]

\* what the caller of run_tool can tell outcomes apart by
Signal(r) == <<r.kind, r.exc>>

\* C5: every tool invocation ends in exactly one of four mutually
\* distinguishable outcomes: binary not locatable -> NotInstalled (no
\* process spawned); wait exceeds the timeout -> TimedOut; exit code outside
\* {0,1} -> Failed; exit code 0 or 1 -> Completed with the parsed findings;
\* and only Completed returns findings.
C5_FourOutcomes ==
    \A t \in DOMAIN res :
        /\ OutcomeClass(t) \in {"NotInstalled", "TimedOut", "Failed", "Completed"}
        /\ ~which[t] => st[t] = "NotInstalled" /\ out[t] = <<>>
        /\ t \in DOMAIN exit /\ exit[t] \notin {0, 1} => st[t] = "Failed"
        /\ t \in DOMAIN exit /\ exit[t] \in {0, 1} =>
              st[t] = "Completed" /\ res[t].kind = "return"
        /\ st[t] # "Completed" => res[t].value = <<>>
        /\ \A u \in DOMAIN res :
              OutcomeClass(t) # OutcomeClass(u) => Signal(res[t]) # Signal(res[u])

\* the parsed values of the valid lines of a tool's stdout, in order
RECURSIVE ValidParsed(_, _)
ValidParsed(t, lines) ==
    IF Len(lines) = 0 THEN <<>>
    ELSE IF Strip(Head(lines)) = "" THEN ValidParsed(t, Tail(lines))
    ELSE IF t = "nuclei"
         THEN IF IsJson(Head(lines))
              THEN <<json_loads(Head(lines))>> \o ValidParsed(t, Tail(lines))
              ELSE ValidParsed(t, Tail(lines))
    ELSE IF t = "amass"
         THEN <<("subdomain" :> Strip(Head(lines)))>> \o ValidParsed(t, Tail(lines))
    ELSE <<("path" :> Strip(Head(lines)))>> \o ValidParsed(t, Tail(lines))

\* C7: a tool whose process completes after writing n non-blank lines, k
\* of them not valid JSON, does not abort and returns exactly the n-k
\* parsed values of the valid lines, in the order written.
C7_MalformedLinesSkipped ==
    \A t \in DOMAIN exit :
        exit[t] \in {0, 1} =>
            /\ t \in DOMAIN res
            /\ res[t].kind = "return"
            /\ res[t].value = ValidParsed(t, out[t])

\* C8: a run in which no tool succeeds still completes the pipeline and
\* reports zero findings instead of aborting with an error.
C8_ZeroToolsStillCompletes ==
    /\ pipe \notin {"start", "scan"}
    /\ \A t \in ToolNames : st[t] # "Completed"
    => pipe = "done" /\ pexc = "None"

(***************************************************************************)
(* Claims about run_nuclei_scan (checked under FairScanSpec)               *)
(***************************************************************************)

\* C6: in run_nuclei_scan, whenever the bounded process-wait times out, the
\* process is killed and the call ends in NucleiScanTimeout after a bounded
\* wait on the two reader threads, also when a reader never reaches
\* end-of-stream after the kill.
C6_TimeoutEndsCall == (spc = "kill") ~> (outcome = "NucleiScanTimeout")

(***************************************************************************)
(* Claims about the classifier (checked under ClassifySpec)                *)
(***************************************************************************)

\* the lower-cased matched-at URL of the finding being classified
PathOf(f) == Lower(GetStr(f, "matched-at"))

PathLogin(f) == Contains(PathOf(f), "login") \/ Contains(PathOf(f), "auth")

PathAdmin(f) == Contains(PathOf(f), "admin")

PathUpload(f) == Contains(PathOf(f), "upload") \/ Contains(PathOf(f), "/image")

PathStatus(f) == Contains(PathOf(f), "/status/")

NoPathRule(f) ==
    ~PathLogin(f) /\ ~PathAdmin(f) /\ ~PathUpload(f) /\ ~PathStatus(f)

\* the i-th row of the keyword table matches the finding's blob or tag set
Kw(f, i) ==
    \/ \E k \in ROLE_PATTERNS[i].keywords : Contains(collect_text(f).text_blob, k)
    \/ \E k \in ROLE_PATTERNS[i].keywords : k \in collect_text(f).tag_set

NoKw(f) == \A i \in 1..Len(ROLE_PATTERNS) : ~Kw(f, i)

BlobHas(f, w) == Contains(collect_text(f).text_blob, w)

\* C9: determine_endpoint_role is total and returns, for every finding
\* (also one with every field missing or empty), exactly one role of the
\* closed set of seven roles; a finding that matches no rule gets
\* Debug/Logging, and no other role string is ever returned.
C9_RoleInClosedSet ==
    phase = "classified" =>
        /\ role \in RoleNames
        /\ finding["__arcanum_role"] = role
        /\ (NoPathRule(finding) /\ NoKw(finding)
            /\ ~BlobHas(finding, "api") /\ ~BlobHas(finding, "graphql")
            /\ ~BlobHas(finding, "database") /\ ~BlobHas(finding, "sql")
              => role = "Debug/Logging")

\* a finding with every field missing has been classified by the default
C9_Witness ==
    /\ phase = "classified"
    /\ DOMAIN finding = {"__arcanum_role"}
    /\ role = "Debug/Logging"

\* C10: role inference is first-match-wins: the path fast-path (login/auth,
\* admin, upload or /image, /status/) wins over the keyword table; then the
\* table in the order File Upload, Login/Auth Endpoint, Admin Panel,
\* Debug/Logging; then api/graphql gives API Endpoint; then database/sql
\* gives Database Service.
C10_FirstMatchWins ==
    phase = "classified" =>
        /\ PathLogin(finding) => role = "Login/Auth Endpoint"
        /\ ~PathLogin(finding) /\ PathAdmin(finding) => role = "Admin Panel"
        /\ ~PathLogin(finding) /\ ~PathAdmin(finding) /\ PathUpload(finding)
              => role = "File Upload"
        /\ ~PathLogin(finding) /\ ~PathAdmin(finding) /\ ~PathUpload(finding)
           /\ PathStatus(finding) => role = "Status Checker/API Gate"
        /\ NoPathRule(finding) /\ Kw(finding, 1) => role = "File Upload"
        /\ NoPathRule(finding) /\ ~Kw(finding, 1) /\ Kw(finding, 2)
              => role = "Login/Auth Endpoint"
        /\ NoPathRule(finding) /\ ~Kw(finding, 1) /\ ~Kw(finding, 2)
           /\ Kw(finding, 3) => role = "Admin Panel"
        /\ NoPathRule(finding) /\ ~Kw(finding, 1) /\ ~Kw(finding, 2)
           /\ ~Kw(finding, 3) /\ Kw(finding, 4) => role = "Debug/Logging"
        /\ NoPathRule(finding) /\ NoKw(finding)
           /\ (BlobHas(finding, "api") \/ BlobHas(finding, "graphql"))
              => role = "API Endpoint"
        /\ NoPathRule(finding) /\ NoKw(finding)
           /\ ~BlobHas(finding, "api") /\ ~BlobHas(finding, "graphql")
           /\ (BlobHas(finding, "database") \/ BlobHas(finding, "sql"))
              => role = "Database Service"

\* matched-at contains "login", the tags say "admin": Login/Auth Endpoint
C10_Witness ==
    /\ phase = "classified"
    /\ Contains(PathOf(finding), "login")
    /\ "admin" \in collect_text(finding).tag_set
    /\ role = "Login/Auth Endpoint"

(***************************************************************************)
(* Claims about the insight tags (checked under InsightSpec)               *)
(***************************************************************************)

\* the labels of the insight table, in table order
TableLabels == [i \in 1..Len(INSIGHT_PATTERNS) |-> INSIGHT_PATTERNS[i].label]

\* where a label belongs in the first-seen order: the insight table in
\* table order, then the priority tag, then CVE Coverage, then the role
Rank(label) ==
    IF \E i \in 1..Len(TableLabels) : TableLabels[i] = label
    THEN CHOOSE i \in 1..Len(TableLabels) : TableLabels[i] = label
    ELSE IF label \in {"High Priority", "Needs Review"}
         THEN Len(TableLabels) + 1
    ELSE IF label = "CVE Coverage" THEN Len(TableLabels) + 2
    ELSE IF StartsWith(label, "Sensitive Role: ") THEN Len(TableLabels) + 3
    ELSE 0

\* C11: infer_insights is idempotent and order-stable: processing the same
\* finding twice (determine_endpoint_role, store the role, infer_insights,
\* then the same again) yields the same tag sequence both times, the
\* sequence has no duplicate label, and the labels appear in first-seen
\* order: insight table order, then the priority tag, then CVE Coverage,
\* then Sensitive Role.
C11_InsightsIdempotent ==
    /\ \A p \in 1..Len(insights) :
          /\ \A i \in 1..Len(insights[p]) : Rank(insights[p][i]) > 0
          /\ \A i, j \in 1..Len(insights[p]) :
                i < j => Rank(insights[p][i]) < Rank(insights[p][j])
    /\ \A p, q \in 1..Len(insights) : insights[p] = insights[q]

\* a critical CVE finding tagged sqli twice, processed twice: table labels,
\* High Priority, CVE Coverage and the role, each once
C11_Witness ==
    /\ Len(insights) = Passes
    /\ Len(insights[2]) >= 5
    /\ insights[2][1] = "SQLi Suspected"
    /\ \E i \in 1..Len(insights[2]) :
          /\ i + 2 = Len(insights[2])
          /\ insights[2][i] = "High Priority"
          /\ insights[2][i + 1] = "CVE Coverage"
          /\ StartsWith(insights[2][i + 2], "Sensitive Role: ")

(***************************************************************************)
(* Claims about synthesize_attack_paths (checked under SynthSpec)          *)
(***************************************************************************)

\* the role stored in the i-th finding of the list (1-based position)
RoleAt(i) == GetOr(scan_results[i], "__arcanum_role", "Unknown")

\* the 0-based indices of the list, in order
Indices == [i \in 1..Len(scan_results) |-> i - 1]

\* the indices of the findings of one role, in input order, and as a set
RoleSeq(r) == SelectSeq(Indices, LAMBDA j : RoleAt(j + 1) = r)

RoleIdx(r) == {j \in 0..(Len(scan_results) - 1) : RoleAt(j + 1) = r}

\* the positions in paths of the paths with a given name
Named(n) == {k \in 1..Len(paths) : paths[k].name = n}

\* the display name contains "sql injection", or the finding is tagged sqli
IsSqliFinding(f) ==
    \/ Contains(Lower(GetOr(GetOr(f, "info", <<>>), "name", "")), "sql injection")
    \/ TagIn("sqli", f)

SqliIdx == {j \in 0..(Len(scan_results) - 1) : IsSqliFinding(scan_results[j + 1])}

\* C12: Rule A: exactly one path named "Web Shell via Weak Auth" for every
\* (upload, auth) pair of the File Upload and Login/Auth Endpoint findings,
\* each with steps = [uploadIndex, authIndex] and risk_score = 90, and no
\* other path of that name.
C12_RuleA ==
    calls >= 1 =>
        /\ \A u \in RoleIdx("File Upload") :
           \A a \in RoleIdx("Login/Auth Endpoint") :
              Cardinality({k \in Named("Web Shell via Weak Auth") :
                              paths[k].steps = <<u, a>>}) = 1
        /\ \A k \in Named("Web Shell via Weak Auth") :
              /\ Len(paths[k].steps) = 2
              /\ paths[k].steps[1] \in RoleIdx("File Upload")
              /\ paths[k].steps[2] \in RoleIdx("Login/Auth Endpoint")
              /\ paths[k].risk_score = 90

\* one Upload-role and one Auth-role finding, the auth finding first:
\* exactly one Rule A path
C12_Witness ==
    /\ calls >= 1
    /\ RoleSeq("Login/Auth Endpoint") = <<0>>
    /\ RoleSeq("File Upload") = <<1>>
    /\ Cardinality(Named("Web Shell via Weak Auth")) = 1
    /\ \E k \in Named("Web Shell via Weak Auth") : paths[k].steps = <<1, 0>>

C14_SqliIndependentOfRole ==
    calls >= 1 =>
        \A j \in SqliIdx :
            \E k \in Named("Database Breach to Session Stealing") :
                paths[k].steps[1] = j

\* C15: Rule C: for every SQLi-point finding exactly one path named
\* "Database Breach to Session Stealing", whose steps are that finding's
\* index followed by the index of every Login/Auth Endpoint finding in
\* input order, with risk_score = 95.
C15_RuleC ==
    calls >= 1 =>
        /\ \A j \in SqliIdx :
              Cardinality({k \in Named("Database Breach to Session Stealing") :
                              paths[k].steps[1] = j}) = 1
        /\ \A k \in Named("Database Breach to Session Stealing") :
              /\ paths[k].steps[1] \in SqliIdx
              /\ paths[k].steps =
                    <<paths[k].steps[1]>> \o RoleSeq("Login/Auth Endpoint")
              /\ paths[k].risk_score = 95

\* C16: every entry of every emitted path's steps is a valid index into the
\* findings list of the call (0 <= step < length), and steps is never empty.
C16_NoDanglingIndex ==
    calls >= 1 =>
        \A k \in 1..Len(paths) :
            /\ Len(paths[k].steps) >= 1
            /\ \A i \in 1..Len(paths[k].steps) :
                  paths[k].steps[i] \in 0..(Len(scan_results) - 1)

\* a path refers to the last finding of a list of the largest size
C16_Witness ==
    /\ calls >= 1
    /\ Len(scan_results) = MaxFindings
    /\ \E k \in 1..Len(paths) : \E i \in 1..Len(paths[k].steps) :
          paths[k].steps[i] = Len(scan_results) - 1

\* C17: an empty input yields no path, and in general the call emits
\* exactly |Upload|*|Auth| + |Debug| + |SQLi| paths.
C17_PathCount ==
    calls >= 1 =>
        /\ scan_results = <<>> => paths = <<>>
        /\ Len(paths) =
              Cardinality(RoleIdx("File Upload"))
                  * Cardinality(RoleIdx("Login/Auth Endpoint"))
              + Cardinality(RoleIdx("Debug/Logging"))
              + Cardinality(SqliIdx)

\* C18: synthesize_attack_paths is pure and deterministic: a call leaves
\* its input list and every finding in it unchanged, and a second call on
\* the same input returns the same paths.
C18_Pure ==
    [][calls' # calls =>
          /\ scan_results' = scan_results
          /\ calls >= 1 => paths' = paths]_vars

\* C18 as amended: a call changes nothing of its input but the key
\* __endpoint_idx, which it sets in every finding to the finding's position;
\* length, order and every other key stay, and a second call on the same
\* list changes nothing and returns the same paths.
C18_OnlyWritesEndpointIdx ==
    [][calls' # calls =>
          /\ Len(scan_results') = Len(scan_results)
          /\ \A i \in 1..Len(scan_results) :
                /\ DOMAIN scan_results'[i] =
                      DOMAIN scan_results[i] \cup {"__endpoint_idx"}
                /\ scan_results'[i]["__endpoint_idx"] = i - 1
                /\ \A key \in DOMAIN scan_results[i] \ {"__endpoint_idx"} :
                      scan_results'[i][key] = scan_results[i][key]
          /\ calls >= 1 => paths' = paths /\ scan_results' = scan_results]_vars

\* the second call on a list of three findings has returned three paths
C18_Witness ==
    /\ calls = 2
    /\ Len(scan_results) = 3
    /\ Len(paths) = 3
    /\ \A i \in 1..3 : scan_results[i]["__endpoint_idx"] = i - 1

(***************************************************************************)
(* Claims about the consolidated record (checked under AssessSpec)         *)
(***************************************************************************)

\* the attack paths of the record written, if it holds any
\* a file holds a consolidated record
HoldsRecord == DOMAIN record.content # {}

RecordPaths ==
    IF ~HoldsRecord THEN <<>>
    ELSE IF record.file = "assessment_output.json"
         THEN record.content.attack_paths
    ELSE IF record.file = ReportPath(target_url) THEN record.content.paths
    ELSE <<>>

\* the path carries the target identifier of the run
CarriesTarget(path) ==
    "target_url" \in DOMAIN path /\ path["target_url"] = target_url

\* C19: every attack path carries the target identifier of the run, attached
\* after synthesis and before the paths are handed to payload simulation
\* and reporting, so also in the consolidated record, for every entry point.
C19_PathsCarryTarget ==
    /\ pipe \in {"simulate", "report", "save", "done"} =>
          \A k \in 1..Len(attack_paths) : CarriesTarget(attack_paths[k])
    /\ \A k \in 1..Len(RecordPaths) : CarriesTarget(RecordPaths[k])

\* the keys the classification and the synthesis store in a finding
Annotations == {"__arcanum_role", "__endpoint_idx"}

\* the insight tags of the i-th finding of the run
InsightsOf(i) ==
    infer_insights(TemplateIdOf(nuclei_findings[i]),
                   WithRole(determine_endpoint_role(nuclei_findings[i]),
                            nuclei_findings[i]))

CommandHead(u) ==
    <<"nuclei", "-u", u, "-silent", "-jsonl", "-no-meta", "-stats">>

\* the profile a call selects
SelectedKey(c) == Lower(IF c.profile # "" THEN c.profile ELSE DEFAULT_PROFILE)

\* C21: every command build_nuclei_command returns is the seven-element
\* head with the url third, then the selected profile's arguments, then the
\* extra arguments; the call leaves the profile registry as it was, and two
\* calls with the same arguments return equal commands.
C21_CommandShape ==
    /\ registry = PROFILES
    /\ \A i \in 1..Len(commands) :
         LET c == commands[i]
         IN  c.raised = "None" =>
               LET args == PROFILES[SelectedKey(c)].args
                   n == Len(args)
               IN  /\ Len(c.command) = 7 + n + Len(c.extra_args)
                   /\ SubSeq(c.command, 1, 7) = CommandHead(c.url)
                   /\ c.command[3] = c.url
                   /\ SubSeq(c.command, 8, 7 + n) = args
                   /\ SubSeq(c.command, 8 + n, Len(c.command)) = c.extra_args
    /\ \A i, j \in 1..Len(commands) :
         (/\ commands[i].url = commands[j].url
          /\ commands[i].profile = commands[j].profile
          /\ commands[i].extra_args = commands[j].extra_args)
         => commands[i] = commands[j]

\* the same call made twice, with profile arguments and extra arguments
C21_Witness ==
    /\ Len(commands) = 2
    /\ commands[1] = commands[2]
    /\ commands[1].raised = "None"
    /\ commands[1].profile = "Balanced"
    /\ commands[1].extra_args = <<"-H", "x">>
    /\ Len(commands[1].command) = 15

\* C22: build_nuclei_command raises its invalid-profile error exactly when
\* the lower-cased requested name is not a registered profile; with no
\* profile requested it uses the default profile and never raises.
C22_RaisesIffUnknown ==
    /\ DEFAULT_PROFILE \in DOMAIN registry
    /\ \A i \in 1..Len(commands) :
         LET c == commands[i]
         IN  /\ c.raised \in {"None", "ValueError"}
             /\ c.profile # "" =>
                  (c.raised = "ValueError" <=> Lower(c.profile) \notin ProfileKeys)
             /\ c.profile = "" =>
                  /\ c.raised = "None"
                  /\ SubSeq(c.command, 8, 7 + Len(PROFILES[DEFAULT_PROFILE].args))
                       = PROFILES[DEFAULT_PROFILE].args

\* an upper-case registered name is accepted and an unknown one is refused
C22_Witness ==
    /\ Len(commands) = 2
    /\ commands[1].profile = "FAST"
    /\ commands[1].raised = "None"
    /\ commands[2].profile = "fast "
    /\ commands[2].raised = "ValueError"


(***************************************************************************)
(* Claims about the attack_success_log table (checked under StoreSpec)     *)
(***************************************************************************)

\* the (description, tags) pairs of the calls logged with the label "success"
SuccessfulLogged ==
    LET hits == SelectSeq(logged, LAMBDA l : l.success = "success")
    IN  [i \in 1..Len(hits) |-> <<hits[i].chain_description, hits[i].tags>>]

\* how often pair occurs in the sequence pairs
Occurrences(pairs, pair) == Cardinality({i \in 1..Len(pairs) : pairs[i] = pair})

\* C23: a retrieval made after the latest log_attack_result call returns
\* one (description, tags) pair for each call logged with the label
\* "success", with the tags as they were logged, and nothing else; and a
\* log_attack_result call leaves every earlier row as it was.
C23_RetrieveMatchesLog ==
    /\ [](output.at = Len(rows) =>
            /\ Len(output.pairs) = Len(SuccessfulLogged)
            /\ \A i \in 1..Len(SuccessfulLogged) :
                 Occurrences(output.pairs, SuccessfulLogged[i])
                   = Occurrences(SuccessfulLogged, SuccessfulLogged[i]))
    /\ [][/\ Len(rows') >= Len(rows)
          /\ SubSeq(rows', 1, Len(rows)) = rows]_vars

\* a success with tags that need escaping and a near miss were logged, and
\* the retrieval after them gave the one pair
C23_Witness ==
    /\ Len(rows) = 2
    /\ output.at = 2
    /\ logged[1].success = "Success"
    /\ logged[2].success = "success"
    /\ logged[2].tags = <<"a\"b, c\\">>
    /\ output.pairs = <<(<<logged[2].chain_description, logged[2].tags>>)>>


(***************************************************************************)
(* Claims about the role tag of infer_insights (checked under InsightSpec) *)
(***************************************************************************)

\* the labels carry a "Sensitive Role: ..." tag
HasSensitiveRole(labels) ==
    \E i \in 1..Len(labels) : StartsWith(labels[i], "Sensitive Role: ")

\* C24: infer_insights appends "Sensitive Role: <role>" exactly when the
\* finding has a role assigned and the role is not the catch-all
\* Debug/Logging, both on the finding as it stands and in every pass of
\* process_findings made so far.
C24_SensitiveRoleUnlessDefault ==
    LET r == GetStr(finding, "__arcanum_role")
    IN  /\ HasSensitiveRole(infer_insights(TemplateIdOf(finding), finding))
             <=> (r # "" /\ r # "Debug/Logging")
        /\ \A p \in 1..Len(insights) :
             HasSensitiveRole(insights[p]) <=> role # "Debug/Logging"


(***************************************************************************)
(* Claims about path ids and steps (checked under SynthSpec)               *)
(***************************************************************************)

\* the rule a path comes from: 1 for Rule A, 2 for Rule B, 3 for Rule C
RuleRank(name) ==
    IF name = "Web Shell via Weak Auth" THEN 1
    ELSE IF name = "Internal Recon Lead via Debug Info" THEN 2
    ELSE IF name = "Database Breach to Session Stealing" THEN 3
    ELSE 0

\* C25: the path at position k of the output has the id path_k, so the ids
\* of one call are unique and have no gaps, and the paths of Rule A come
\* before those of Rule B, which come before those of Rule C.
C25_RunningIds ==
    /\ \A k \in 1..Len(paths) :
         /\ paths[k].id = "path_" \o ToString(k)
         /\ RuleRank(paths[k].name) \in 1..3
    /\ \A i, j \in 1..Len(paths) : i # j => paths[i].id # paths[j].id
    /\ \A i, j \in 1..Len(paths) :
         i < j => RuleRank(paths[i].name) <= RuleRank(paths[j].name)

\* three paths from two rules: the count runs on from Rule B into Rule C
C25_Witness ==
    /\ calls > 0
    /\ Len(paths) = 3
    /\ RuleRank(paths[1].name) = 2
    /\ RuleRank(paths[2].name) = 3
    /\ paths[3].id = "path_3"

\* C28: within one path no finding index is listed twice
C28_StepsDistinct ==
    \A k \in 1..Len(paths) :
        \A i, j \in 1..Len(paths[k].steps) :
            i # j => paths[k].steps[i] # paths[k].steps[j]

\* a path with three steps: an SQLi point and two auth endpoints
C28_Witness ==
    /\ calls > 0
    /\ \E k \in 1..Len(paths) :
         /\ RuleRank(paths[k].name) = 3
         /\ Len(paths[k].steps) = 3


(***************************************************************************)
(* Claims about the stderr tail (checked under TailSpec)                   *)
(***************************************************************************)

RECURSIVE Kept(_)
\* the lines of a stream that are not blank, without trailing whitespace
Kept(lines) ==
    IF Len(lines) = 0 THEN <<>>
    ELSE IF RStrip(Head(lines)) = "" THEN Kept(Tail(lines))
    ELSE <<RStrip(Head(lines))>> \o Kept(Tail(lines))

\* the last min(n, Len(lines)) elements of lines
LastN(n, lines) ==
    IF Len(lines) <= n THEN lines
    ELSE SubSeq(lines, Len(lines) - n + 1, Len(lines))

\* the non-blank stderr lines the process has written so far
WrittenKept == Kept(SubSeq(err_script, 1, written.stderr))

\* C27: the stderr tail never holds more than 40 lines; when the call is
\* over it is the last min(40, m) of the m non-blank lines the process
\* wrote to stderr, in the order written, and that is the tail a
\* NucleiScanFailed or a NucleiScanResult carries.
C27_StderrTail ==
    /\ Len(stderr_tail) <= 40
    /\ Len(stderr_lines) <= 40
    /\ spc = "done" =>
         /\ stderr_tail = LastN(40, WrittenKept)
         /\ outcome \in {"NucleiScanFailed", "NucleiScanResult"}
              => stderr_lines = stderr_tail

\* the process wrote 43 lines, two of them blank, and failed: the failure
\* carries the last 40 of the 41 others
C27_Witness ==
    /\ spc = "done"
    /\ outcome = "NucleiScanFailed"
    /\ written.stderr = 43
    /\ Len(WrittenKept) = 41
    /\ Len(stderr_lines) = 40
    /\ stderr_lines[1] = "e3"
    /\ stderr_lines[40] = "e43"


(***************************************************************************)
(* Claims about the order of the phases (checked under AssessSpec)         *)
(***************************************************************************)

\* the place of a phase in the order of the run
PhaseRank(ph) ==
    IF ph = "classify" THEN 2
    ELSE IF ph = "synthesize" THEN 3
    ELSE IF ph = "simulate" THEN 4
    ELSE IF ph = "report" THEN 5
    ELSE IF ph = "save" THEN 6
    ELSE 7

====
